---- MODULE Spec2Model ----
(***************************************************************************)
(* A model of the gollm core: the capability registry (both revisions that *)
(* the source tree holds), the provider adapters' capability registration  *)
(* and request preparation, and the streaming pipeline (SSE decoder and    *)
(* token stream).                                                          *)
(*                                                                         *)
(* Strings are TLA+ strings; registry keys are built by concatenation as   *)
(* the code builds them.  A Go nil interface / nil pointer is the value    *)
(* Nil.  Model names are a representative subset of each adapter's         *)
(* allModels list plus one name no adapter knows.                          *)
(***************************************************************************)
EXTENDS Integers, Sequences, FiniteSets, TLC

(***************************************************************************)
(* Bounds of the model.                                                    *)
(***************************************************************************)
\* distinct payloads of a descriptor passed to Register by a caller
NumConfigValues == 1
\* frames the HTTP body delivers before it ends
MaxFrames == 3
\* largest token count a vendor frame reports
MaxCount == 2
\* Goroutines that call into the registry and the adapter at once.
NumProcs == 2

(***************************************************************************)
(* Provider names and capability tags.                                     *)
(***************************************************************************)
ProviderOpenAI == "openai"
ProviderGemini == "gemini"
ProviderAnthropic == "anthropic"
ProviderCohere == "cohere"
ProviderOllama == "ollama"
ProviderGroq == "groq"
ProviderMistral == "mistral"

CapStructuredResponse == "structured_response"
CapStreaming == "streaming"
CapFunctionCalling == "function_calling"
CapVision == "vision"
CapToolUse == "tool_use"
CapSystemPrompt == "system_prompt"
CapCaching == "caching"

Capabilities ==
  {CapStructuredResponse, CapStreaming, CapFunctionCalling, CapVision,
   CapToolUse, CapSystemPrompt, CapCaching}

\* The adapters that register through GetRegistry (capability_registry.go)
\* and those that register through GetCapabilityRegistry (the slice-backed
\* revision).  Both files declare type CapabilityRegistry and registryOnce
\* in package providers, so one build links exactly one of them.
MapProviders == {ProviderAnthropic, ProviderGroq, ProviderOllama}
SliceProviders == {ProviderOpenAI, ProviderMistral, ProviderCohere, ProviderGemini}
Providers == MapProviders \cup SliceProviders

\* The numeric values of the capability enumeration that indexes a
\* ModelCapabilities slice (0 is the unspecified value).
CapabilityType_value ==
  [c \in Capabilities \cup {"unspecified"} |->
     CASE c = "unspecified" -> 0
       [] c = CapStructuredResponse -> 1
       [] c = CapStreaming -> 2
       [] c = CapFunctionCalling -> 3
       [] c = CapVision -> 4
       [] c = CapToolUse -> 5
       [] c = CapSystemPrompt -> 6
       [] c = CapCaching -> 7]

(***************************************************************************)
(* Descriptors.  A descriptor names its own kind (Name() / GetType()) and  *)
(* carries a payload; v = 0 is the descriptor an adapter registers.        *)
(***************************************************************************)
Nil == [kind |-> "nil", v |-> 0]

Descriptor(kind, v) == [kind |-> kind, v |-> v]

(***************************************************************************)
(* Go maps as functions with a finite domain.                              *)
(***************************************************************************)
EmptyMap == <<>>

Put(m, k, v) == [x \in (DOMAIN m) \cup {k} |-> IF x = k THEN v ELSE m[x]]

Get(m, k, dflt) == IF k \in DOMAIN m THEN m[k] ELSE dflt

\* xsync.Map.LoadOrStore: the stored value when the key is present, else
\* the given value, which is stored.
LoadOrStore(m, k, v) == IF k \in DOMAIN m THEN m ELSE Put(m, k, v)

(***************************************************************************)
(* capability_registry.go: the map-backed registry.                        *)
(***************************************************************************)
makeKey(provider, model) == provider \o ":" \o model

\* Register without the nil guard (a mutant of Register).
RegisterNoNilGuard(caps, provider, model, capability, config) ==
  LET key == makeKey(provider, model)
      m1 == LoadOrStore(caps, key, EmptyMap)
  IN [m1 EXCEPT ![key] = Put(m1[key], capability, config)]

Register(caps, provider, model, capability, config) ==
  IF config = Nil THEN caps
  ELSE LET key == makeKey(provider, model)
           m1 == LoadOrStore(caps, key, EmptyMap)
       IN [m1 EXCEPT ![key] = Put(m1[key], capability, config)]

HasCapabilityMap(caps, provider, model, capability) ==
  LET key == makeKey(provider, model)
  IN IF key \notin DOMAIN caps THEN FALSE
     ELSE capability \in DOMAIN caps[key]

GetConfigMap(caps, provider, model, cap) ==
  LET key == makeKey(provider, model)
  IN IF key \notin DOMAIN caps THEN Nil
     ELSE Get(caps[key], cap, Nil)

\* Clear that forgets to purge (a mutant of ClearMap).
ClearKeepsEntries(caps) == caps

ClearMap(caps) == EmptyMap

(***************************************************************************)
(* The slice-backed registry revision (GetCapabilityRegistry).             *)
(***************************************************************************)
makeSlug(provider, model) == provider \o "/" \o model

maxCapabilityVal ==
  CHOOSE n \in {CapabilityType_value[c] : c \in DOMAIN CapabilityType_value} :
    \A c \in DOMAIN CapabilityType_value : CapabilityType_value[c] <= n

NewModelCapabilities == [i \in 0..maxCapabilityVal |-> Nil]

AddCapability(r, capType, config) ==
  IF capType \in DOMAIN r THEN [r EXCEPT ![capType] = config] ELSE r

GetCapabilitySlice(r, capType) ==
  IF capType \in DOMAIN r THEN r[capType] ELSE Nil

HasCapabilitySliceOf(r, capType) ==
  IF capType \in DOMAIN r THEN r[capType] # Nil ELSE FALSE

RegisterCapability(mods, provider, model, capType, config) ==
  LET slug == makeSlug(provider, model)
      m1 == LoadOrStore(mods, slug, NewModelCapabilities)
  IN [m1 EXCEPT ![slug] = AddCapability(m1[slug], capType, config)]

HasCapabilitySlice(mods, provider, model, capType) ==
  LET slug == makeSlug(provider, model)
  IN IF slug \notin DOMAIN mods THEN FALSE
     ELSE HasCapabilitySliceOf(mods[slug], capType)

GetConfigSlice(mods, provider, model, capType) ==
  LET slug == makeSlug(provider, model)
  IN IF slug \notin DOMAIN mods THEN Nil
     ELSE GetCapabilitySlice(mods[slug], capType)

ClearSlice(mods) == EmptyMap

(***************************************************************************)
(* The adapters' registerCapabilities.  strings.HasPrefix and              *)
(* strings.Contains are tabulated over the model names of the universe.    *)
(***************************************************************************)
UnknownModel == "custom-model"

HasPrefix(s, prefix) ==
  <<s, prefix>> \in
    {<<"gpt-4o", "gpt-4o">>, <<"gpt-4o", "gpt-4">>,
     <<"gpt-3.5-turbo", "gpt-3.5-turbo">>,
     <<"o1-preview", "o1">>, <<"o1-preview", "o">>}

Contains(s, substr) ==
  <<s, substr>> \in
    {<<"claude-3-opus", "claude-3">>, <<"llava", "llava">>,
     <<"command-r-plus", "command-r">>, <<"command-r-plus", "command">>,
     <<"command", "command">>, <<"gpt-4o", "4o">>,
     <<"claude-3-opus", "-o">>}

Range(seq) == {seq[i] : i \in 1..Len(seq)}

\* The allModels list of each adapter's registerCapabilities, reduced to one
\* model per branch of the loop body.
AllModels ==
  [p \in Providers |->
     CASE p = ProviderAnthropic -> <<"claude-3-opus", "claude-2.1">>
       [] p = ProviderGroq -> <<"llama3-8b-8192", "llama-guard-3-8b">>
       [] p = ProviderOllama -> <<"llama3:8b", "llava">>
       [] p = ProviderOpenAI -> <<"gpt-4o", "gpt-3.5-turbo", "o1-preview">>
       [] p = ProviderMistral -> <<"mistral-large-latest", "codestral-mamba", "mistral-embed">>
       [] p = ProviderCohere -> <<"command-r-plus", "command">>
       [] p = ProviderGemini -> <<"gemini-2.5-pro", "gemini-1.0-pro">>]

\* The model names a caller may bind an adapter to or ask for.
ModelsOf(p) == Range(AllModels[p]) \cup {UnknownModel}

\* The capabilities one iteration of the adapter's loop registers for a
\* model, in the order of the code.
AnthropicModelCaps(model) ==
  <<CapStructuredResponse, CapFunctionCalling, CapStreaming, CapCaching>>
  \o (IF Contains(model, "claude-3") THEN <<CapVision>> ELSE <<>>)
  \o <<CapSystemPrompt>>

GroqModelCaps(model) ==
  <<CapStructuredResponse>>
  \o (IF model # "llama-guard-3-8b" THEN <<CapFunctionCalling>> ELSE <<>>)
  \o (IF model # "llama-guard-3-8b" THEN <<CapStreaming>> ELSE <<>>)

OllamaModelCaps(model) ==
  <<CapStreaming>>
  \o (IF \E vm \in {"llava", "bakllava", "moondream"} :
           Contains(model, vm) \/ model = vm
      THEN <<CapVision>> ELSE <<>>)
  \o <<CapSystemPrompt>>

OpenAIModelCaps(model) ==
  IF HasPrefix(model, "o1") THEN <<>>
  ELSE (IF HasPrefix(model, "gpt-4o") \/ HasPrefix(model, "gpt-4-turbo")
          THEN <<CapStructuredResponse>>
        ELSE IF HasPrefix(model, "gpt-4") THEN <<CapStructuredResponse>>
        ELSE IF HasPrefix(model, "gpt-3.5-turbo")
                  /\ model \in {"gpt-3.5-turbo-0125", "gpt-3.5-turbo-1106"}
          THEN <<CapStructuredResponse>>
        ELSE <<>>)
       \o (IF HasPrefix(model, "gpt-4") \/ HasPrefix(model, "gpt-3.5-turbo")
             THEN <<CapFunctionCalling>> ELSE <<>>)
       \o (IF ~HasPrefix(model, "o1") THEN <<CapStreaming>> ELSE <<>>)
       \o (IF \E vm \in {"gpt-4o", "gpt-4-turbo", "gpt-4-vision"} :
                HasPrefix(model, vm)
             THEN <<CapVision>> ELSE <<>>)

MistralModelCaps(model) ==
  (IF model # "codestral-mamba" /\ model # "mistral-embed"
     THEN <<CapStructuredResponse>> ELSE <<>>)
  \o (IF model \in {"mistral-large-latest"} THEN <<CapFunctionCalling>> ELSE <<>>)
  \o (IF model # "mistral-embed" THEN <<CapStreaming>> ELSE <<>>)
  \o (IF Contains(model, "pixtral") THEN <<CapVision>> ELSE <<>>)

CohereModelCaps(model) ==
  (IF model \in {"command-r-plus"} THEN <<CapStructuredResponse>> ELSE <<>>)
  \o (IF Contains(model, "command-r") \/ Contains(model, "command")
        THEN <<CapFunctionCalling>> ELSE <<>>)
  \o <<CapStreaming>>

GeminiModelCaps(model) ==
  (IF model \in {"gemini-2.5-pro"} THEN <<CapStructuredResponse>> ELSE <<>>)
  \o (IF model \in {"gemini-2.5-pro", "gemini-1.0-pro"}
        THEN <<CapFunctionCalling>> ELSE <<>>)
  \o (IF model \in {"gemini-2.5-pro"} THEN <<CapVision>> ELSE <<>>)
  \o <<CapStreaming, CapSystemPrompt>>

ModelCaps(p, model) ==
  CASE p = ProviderAnthropic -> AnthropicModelCaps(model)
    [] p = ProviderGroq -> GroqModelCaps(model)
    [] p = ProviderOllama -> OllamaModelCaps(model)
    [] p = ProviderOpenAI -> OpenAIModelCaps(model)
    [] p = ProviderMistral -> MistralModelCaps(model)
    [] p = ProviderCohere -> CohereModelCaps(model)
    [] p = ProviderGemini -> GeminiModelCaps(model)

\* The (model, capability) pairs registerCapabilities registers, in order.
RECURSIVE Registrations(_, _)
Registrations(p, allModels) ==
  IF allModels = <<>> THEN <<>>
  ELSE LET model == Head(allModels)
           caps == ModelCaps(p, model)
       IN [i \in 1..Len(caps) |-> <<model, caps[i]>>]
          \o Registrations(p, Tail(allModels))

\* registerCapabilities of the adapters that use GetRegistry.
RECURSIVE registerCapabilitiesMap(_, _, _)
registerCapabilitiesMap(caps, p, regs) ==
  IF regs = <<>> THEN caps
  ELSE registerCapabilitiesMap(
         Register(caps, p, Head(regs)[1], Head(regs)[2],
                  Descriptor(Head(regs)[2], 0)),
         p, Tail(regs))

\* registerCapabilities of the adapters that use GetCapabilityRegistry.
RECURSIVE registerCapabilitiesSlice(_, _, _)
registerCapabilitiesSlice(mods, p, regs) ==
  IF regs = <<>> THEN mods
  ELSE registerCapabilitiesSlice(
         RegisterCapability(mods, p, Head(regs)[1],
                            CapabilityType_value[Head(regs)[2]],
                            Descriptor(Head(regs)[2], 0)),
         p, Tail(regs))

(***************************************************************************)
(* State.                                                                  *)
(***************************************************************************)
VARIABLES
  build,         \* which registry revision the build links: "map" or "slice"
  capabilities,  \* CapabilityRegistry.capabilities (key -> capability -> config)
  models,        \* CapabilityRegistry.models (slug -> ModelCapabilities)
  adapters,      \* provider -> the model the constructed adapter is bound to
  lastReg,       \* history: (p, m, c) -> last non-nil config registered since Clear
  sinceClear,    \* history: Clear was the last registry-changing call
  activeProvider, \* the adapter the caller prepares requests and streams with
  streamMode,    \* GeminiProvider.streamMode
  lastPrepare,   \* history: the last Prepare(Stream)Request call and its result
  pc,            \* where the caller's goroutine is in providerStream.Next
  ctxDone,       \* the context given to Next is cancelled
  currentIndex,  \* providerStream.currentIndex
  decoderErr,    \* SSEDecoder.err
  framesRead,    \* events the decoder has dispatched from the body
  scanDone,      \* the decoder's scanner has reached the end of the body
  closeCalled,   \* Close was called on the stream
  readerClosed,  \* the io.ReadCloser given to newProviderStream is closed
  lastResult,    \* history: what the last Next returned
  lastToken,     \* history: the last token a Next returned
  prevToken,     \* history: the token returned before lastToken
  nYielded,      \* history: tokens returned so far
  eofReturned,   \* history: some Next has returned io.EOF
  skipped,       \* history: loop iterations the current Next continued from
  scanErr,       \* the error of the decoder's bufio.Scanner ("": none)
  lastSkipErr,   \* history: the parse error of the frame just discarded
  lastFrame,     \* history: the frame last decoded on its own, and the step
  pOptions,      \* the options map (p.options) of the caller's adapter
  lastParse,     \* history: the last ParseResponse call and its result
  extraHeaders,  \* p.extraHeaders of the caller's adapter
  givenHeaders,  \* history: the extra headers the caller supplied last
  lastLimit,     \* history: the value of the last token-limit SetOption
  lastSchema,    \* history: the last schema given to Gemini and what was sent
  gpc,           \* goroutine -> where it is in the call it runs
  gop,           \* goroutine -> the call it runs and its arguments
  handle,        \* goroutine -> the registry the accessor returned to it (0: none)
  onceState,     \* registryOnce: "fresh", "running" or "done"
  globalRegistry, \* the package variable the accessor returns (0: nil)
  instances,     \* history: registries constructed so far
  raced,         \* history: maps accessed by a writer and another goroutine at once
  fatal,         \* the runtime has thrown "concurrent map writes"
  completed      \* history: the map writes whose calls have returned

regVars == <<build, capabilities, models, adapters, lastReg, sinceClear>>

prepVars ==
  <<activeProvider, streamMode, lastPrepare, pOptions, lastParse, extraHeaders,
    givenHeaders, lastLimit, lastSchema>>

streamVars ==
  <<pc, ctxDone, currentIndex, decoderErr, framesRead, scanDone, closeCalled,
    readerClosed, lastResult, lastToken, prevToken, nYielded, eofReturned,
    skipped, scanErr, lastSkipErr, lastFrame>>

concVars ==
  <<gpc, gop, handle, onceState, globalRegistry, instances, raced, fatal,
    completed>>

vars == <<regVars, prepVars, streamVars, concVars>>

NoAdapter == "<none>"

\* The models an adapter is constructed with while the registry is explored.
BoundModels(p) ==
  IF p \in {ProviderAnthropic, ProviderOpenAI}
    THEN {AllModels[p][1], UnknownModel}
    ELSE {AllModels[p][1]}

\* The (provider, model, capability) cells callers register directly.
MapRegTargets ==
  {<<ProviderAnthropic, "claude-3-opus", CapStreaming>>,
   <<ProviderAnthropic, "claude-3-opus", CapVision>>,
   <<ProviderAnthropic, UnknownModel, CapStreaming>>}

SliceRegTargets ==
  {<<ProviderOpenAI, "gpt-4o", CapStreaming>>,
   <<ProviderOpenAI, "gpt-4o", CapVision>>,
   <<ProviderOpenAI, UnknownModel, CapStreaming>>}

\* The descriptors a caller passes for capability c: descriptors of c's own
\* type and, for vision, one of another type (Register does not compare the
\* capability with config.Name()).
RegConfigs(c) ==
  {Descriptor(c, v) : v \in 1..NumConfigValues}
    \cup (IF c = CapVision THEN {Descriptor(CapStreaming, 1)} ELSE {})

\* The registry seen through the accessors of the linked revision.
HasCapability(provider, model, capability) ==
  IF build = "map"
    THEN HasCapabilityMap(capabilities, provider, model, capability)
    ELSE HasCapabilitySlice(models, provider, model,
                            CapabilityType_value[capability])

GetConfig(provider, model, capability) ==
  IF build = "map"
    THEN GetConfigMap(capabilities, provider, model, capability)
    ELSE GetConfigSlice(models, provider, model,
                        CapabilityType_value[capability])

\* Typed retrieval.  T is named by the capability its Name() / GetType()
\* returns; the type assertion config.(T) succeeds exactly when the stored
\* descriptor is of that type.  The zero value of T is a descriptor no caller
\* registers.
GetCapabilityConfigNoAssert(T, provider, model) ==
  LET config == GetConfigMap(capabilities, provider, model, T)
  IN IF config = Nil
       THEN [config |-> Descriptor(T, -1), err |-> "capability not found"]
       ELSE [config |-> config, err |-> ""]

GetCapabilityConfig(T, provider, model) ==
  LET zero == Descriptor(T, -1)
      capName == T
      config == GetConfigMap(capabilities, provider, model, capName)
  IN IF config = Nil
       THEN [config |-> zero, err |-> "capability not found"]
     ELSE IF config.kind # T
       THEN [config |-> zero, err |-> "capability config type mismatch"]
     ELSE [config |-> config, err |-> ""]

\* GetCapability[T] of the revision that keys capabilities by
\* llmx.CapabilityType; every descriptor type has a GetType method.
GetCapability(T, provider, model) ==
  LET zeroVal == Descriptor(T, -1)
      capName == CapabilityType_value[T]
      config == GetConfigSlice(models, provider, model, capName)
  IN IF config = Nil
       THEN [config |-> zeroVal, err |-> "capability not found"]
     ELSE IF config.kind # T
       THEN [config |-> zeroVal, err |-> "capability config type mismatch"]
     ELSE [config |-> config, err |-> ""]

\* <Adapter>.HasCapability(capability, model...): the bound model unless a
\* non-empty model is given.
ProviderHasCapability(p, capability, model) ==
  LET targetModel == IF model # "" THEN model ELSE adapters[p]
  IN HasCapability(p, targetModel, capability)

RECURSIVE NoteRegistrations(_, _, _)
NoteRegistrations(last, p, regs) ==
  IF regs = <<>> THEN last
  ELSE NoteRegistrations(
         Put(last, <<p, Head(regs)[1], Head(regs)[2]>>,
             Descriptor(Head(regs)[2], 0)),
         p, Tail(regs))

NilSchema == "nil"

NilBody == EmptyMap

\* A Go map[string]any argument: nil, or a map of keys to (printed) values.
NilOptions == [isNil |-> TRUE, kv |-> EmptyMap]

Options(kv) == [isNil |-> FALSE, kv |-> kv]

NoPrepare ==
  [op |-> "none",
   req |-> [Model |-> "", ResponseSchema |-> NilSchema, SystemPrompt |-> "",
            Messages |-> <<>>],
   reqAfter |-> [Model |-> "", ResponseSchema |-> NilSchema, SystemPrompt |-> "",
                 Messages |-> <<>>],
   options |-> NilOptions, model |-> "", hadStreaming |-> FALSE,
   hadStructured |-> FALSE, err |-> "", body |-> NilBody,
   optionsAfter |-> NilOptions]

NilPtr == [isNil |-> TRUE]

\* No ParseResponse call has been made.
NoParse == [called |-> FALSE, body |-> <<>>, res |-> [resp |-> NilPtr, err |-> ""]]

NoToken ==
  [Text |-> "", Type |-> "", Index |-> -1, InputTokens |-> 0, OutputTokens |-> 0]

\* No frame has been decoded on its own yet.
NoFrame ==
  [lines |-> <<>>, ok |-> FALSE, event |-> [Type |-> "", Data |-> <<>>],
   step |-> [token |-> NoToken, shouldContinue |-> FALSE, err |-> ""]]

\* newProviderStream: a fresh decoder over the reader, index 0.
InitStream ==
  /\ pc = "idle"
  /\ ctxDone = FALSE
  /\ currentIndex = 0
  /\ decoderErr = ""
  /\ framesRead = 0
  /\ scanDone = FALSE
  /\ closeCalled = FALSE
  /\ readerClosed = FALSE
  /\ lastResult = "none"
  /\ lastToken = NoToken
  /\ prevToken = NoToken
  /\ nYielded = 0
  /\ eofReturned = FALSE
  /\ skipped = 0
  /\ scanErr = ""
  /\ lastSkipErr = ""
  /\ lastFrame = NoFrame

\* No schema has been given to the Gemini adapter yet.
NoSchema == [called |-> FALSE, given |-> <<>>, sent |-> <<>>]

\* p.extraHeaders when New<Adapter>Provider(apiKey, model, given) returns:
\* the Anthropic constructor copies the caller's headers and adds the
\* caching beta header unless the caller gave one; the others keep the
\* caller's headers (an empty map for nil).
newExtraHeaders(p, given) ==
  IF p = ProviderAnthropic /\ "anthropic-beta" \notin DOMAIN given
    THEN given @@ ("anthropic-beta" :> "prompt-caching-2024-07-31")
    ELSE given

InitRegistry ==
  /\ capabilities = EmptyMap
  /\ models = EmptyMap
  /\ adapters = [p \in Providers |-> NoAdapter]
  /\ lastReg = EmptyMap
  /\ sinceClear = FALSE
  /\ streamMode = FALSE
  /\ lastPrepare = NoPrepare
  /\ lastParse = NoParse
  /\ pOptions = EmptyMap
  /\ extraHeaders = EmptyMap
  /\ givenHeaders = EmptyMap
  /\ lastLimit = ""
  /\ lastSchema = NoSchema

\* No goroutine is in a call.  created: some caller has already been through
\* the accessor, so registryOnce is done and the package variable is set.
NoCall ==
  [op |-> "none", cell |-> <<"", "", "">>, config |-> Nil, key |-> "",
   value |-> "", target |-> "", dirty |-> FALSE]

InitConc(created) ==
  /\ gpc = [g \in 1..NumProcs |-> "idle"]
  /\ gop = [g \in 1..NumProcs |-> NoCall]
  /\ handle = [g \in 1..NumProcs |-> 0]
  /\ onceState = IF created THEN "done" ELSE "fresh"
  /\ globalRegistry = IF created THEN 1 ELSE 0
  /\ instances = IF created THEN 1 ELSE 0
  /\ raced = {}
  /\ fatal = FALSE
  /\ completed = {}

Init ==
  /\ build \in {"map", "slice"}
  /\ activeProvider = ""
  /\ InitRegistry
  /\ InitStream
  /\ InitConc(TRUE)

(***************************************************************************)
(* Registry operations.                                                    *)
(***************************************************************************)
CallRegister(p, m, c, config) ==
  /\ build = "map"
  /\ capabilities' = Register(capabilities, p, m, c, config)
  /\ lastReg' = IF config # Nil THEN Put(lastReg, <<p, m, c>>, config) ELSE lastReg
  /\ sinceClear' = FALSE
  /\ UNCHANGED <<build, models, adapters, prepVars, streamVars, concVars>>

CallRegisterCapability(p, m, c, config) ==
  /\ build = "slice"
  /\ models' = RegisterCapability(models, p, m, CapabilityType_value[c], config)
  /\ lastReg' = IF config # Nil THEN Put(lastReg, <<p, m, c>>, config) ELSE lastReg
  /\ sinceClear' = FALSE
  /\ UNCHANGED <<build, capabilities, adapters, prepVars, streamVars, concVars>>

CallClear ==
  /\ build = "map"
  /\ capabilities' = ClearMap(capabilities)
  /\ lastReg' = EmptyMap
  /\ sinceClear' = TRUE
  /\ UNCHANGED <<build, models, adapters, prepVars, streamVars, concVars>>

CallClearSlice ==
  /\ build = "slice"
  /\ models' = ClearSlice(models)
  /\ lastReg' = EmptyMap
  /\ sinceClear' = TRUE
  /\ UNCHANGED <<build, capabilities, adapters, prepVars, streamVars, concVars>>

\* A constructor of an adapter that registers through GetRegistry.
NewMapProvider(p, model, given) ==
  /\ build = "map"
  /\ capabilities' = registerCapabilitiesMap(capabilities, p,
                                             Registrations(p, AllModels[p]))
  /\ lastReg' = NoteRegistrations(lastReg, p, Registrations(p, AllModels[p]))
  /\ adapters' = [adapters EXCEPT ![p] = model]
  /\ sinceClear' = FALSE
  /\ streamMode' = IF p = ProviderGemini THEN FALSE ELSE streamMode
  /\ pOptions' = EmptyMap
  /\ lastPrepare' = NoPrepare
  /\ lastParse' = NoParse
  /\ extraHeaders' =
       IF p = activeProvider THEN newExtraHeaders(p, given) ELSE extraHeaders
  /\ givenHeaders' = IF p = activeProvider THEN given ELSE givenHeaders
  /\ lastLimit' = ""
  /\ lastSchema' = NoSchema
  /\ UNCHANGED <<build, models, activeProvider, streamVars, concVars>>

\* A constructor of an adapter that registers through GetCapabilityRegistry.
NewSliceProvider(p, model, given) ==
  /\ build = "slice"
  /\ models' = registerCapabilitiesSlice(models, p,
                                         Registrations(p, AllModels[p]))
  /\ lastReg' = NoteRegistrations(lastReg, p, Registrations(p, AllModels[p]))
  /\ adapters' = [adapters EXCEPT ![p] = model]
  /\ sinceClear' = FALSE
  /\ streamMode' = IF p = ProviderGemini THEN FALSE ELSE streamMode
  /\ pOptions' = EmptyMap
  /\ lastPrepare' = NoPrepare
  /\ lastParse' = NoParse
  /\ extraHeaders' =
       IF p = activeProvider THEN newExtraHeaders(p, given) ELSE extraHeaders
  /\ givenHeaders' = IF p = activeProvider THEN given ELSE givenHeaders
  /\ lastLimit' = ""
  /\ lastSchema' = NoSchema
  /\ UNCHANGED <<build, capabilities, activeProvider, streamVars, concVars>>

NewAnthropicProvider(model) == NewMapProvider(ProviderAnthropic, model, EmptyMap)

NewGroqProvider(model) == NewMapProvider(ProviderGroq, model, EmptyMap)

NewOllamaProvider(model) == NewMapProvider(ProviderOllama, model, EmptyMap)

NewOpenAIProvider(model) == NewSliceProvider(ProviderOpenAI, model, EmptyMap)

NewMistralProvider(model) == NewSliceProvider(ProviderMistral, model, EmptyMap)

NewCohereProvider(model) == NewSliceProvider(ProviderCohere, model, EmptyMap)

NewGeminiProvider(model) == NewSliceProvider(ProviderGemini, model, EmptyMap)

NextRegistry ==
  \/ \E m \in BoundModels(ProviderAnthropic) : NewAnthropicProvider(m)
  \/ \E m \in BoundModels(ProviderGroq) : NewGroqProvider(m)
  \/ \E m \in BoundModels(ProviderOllama) : NewOllamaProvider(m)
  \/ \E m \in BoundModels(ProviderOpenAI) : NewOpenAIProvider(m)
  \/ \E m \in BoundModels(ProviderMistral) : NewMistralProvider(m)
  \/ \E m \in BoundModels(ProviderCohere) : NewCohereProvider(m)
  \/ \E m \in BoundModels(ProviderGemini) : NewGeminiProvider(m)
  \/ \E t \in MapRegTargets : \E d \in RegConfigs(t[3]) \cup {Nil} :
       CallRegister(t[1], t[2], t[3], d)
  \/ \E t \in SliceRegTargets : \E d \in RegConfigs(t[3]) \cup {Nil} :
       CallRegisterCapability(t[1], t[2], t[3], d)
  \/ CallClear
  \/ CallClearSlice

SpecRegistry == Init /\ [][NextRegistry]_vars

(***************************************************************************)
(* Properties of the registry.                                             *)
(***************************************************************************)
Cells ==
  UNION {{<<p, m, c>> : m \in ModelsOf(p), c \in Capabilities} : p \in Providers}

\* C2: in every reachable registry state HasCapability is true exactly
\* when GetConfig returns a non-nil descriptor, for every (provider, model,
\* capability); and a true answer of an adapter's HasCapability (for its
\* bound model or a given one) means GetConfig returns a descriptor.
C2_HasCapabilityIffConfig ==
  /\ \A cell \in Cells :
       HasCapability(cell[1], cell[2], cell[3])
         <=> (GetConfig(cell[1], cell[2], cell[3]) # Nil)
  /\ \A p \in Providers : \A c \in Capabilities :
       \A m \in {""} \cup ModelsOf(p) :
         (adapters[p] # NoAdapter /\ ProviderHasCapability(p, c, m))
           => GetConfig(p, IF m # "" THEN m ELSE adapters[p], c) # Nil

\* An adapter bound to a model it registered answers true for streaming
\* while a directly registered cell of another model holds a descriptor.
C2_Witness ==
  /\ adapters[ProviderAnthropic] = "claude-3-opus"
  /\ ProviderHasCapability(ProviderAnthropic, CapStreaming, "")
  /\ HasCapability(ProviderAnthropic, UnknownModel, CapStreaming)
  /\ ~HasCapability(ProviderOllama, UnknownModel, CapStreaming)

\* C9: after Clear, HasCapability is false for every (provider, model,
\* capability), through the registry and through every adapter constructed
\* before the Clear, as long as no register call or construction follows.
C9_ClearedHasNothing ==
  sinceClear =>
    /\ \A cell \in Cells : ~HasCapability(cell[1], cell[2], cell[3])
    /\ \A p \in Providers : \A c \in Capabilities :
         \A m \in {""} \cup ModelsOf(p) :
           adapters[p] # NoAdapter => ~ProviderHasCapability(p, c, m)

\* Clear was the last call and an adapter constructed before it exists.
C9_Witness ==
  /\ sinceClear
  /\ adapters[ProviderAnthropic] = "claude-3-opus"

\* C10: GetConfig returns, for every cell, the descriptor of the most
\* recent register call with a non-nil descriptor since the last Clear
\* (nil when there was none).
C10_LastWriterWins ==
  \A cell \in Cells :
    GetConfig(cell[1], cell[2], cell[3]) = Get(lastReg, cell, Nil)

\* C11: a register call with a nil descriptor changes nothing in the
\* registry: no entry appears for the key and the stored descriptors stay.
C11_NilRegisterIsNoOp ==
  [][((\E t \in MapRegTargets : CallRegister(t[1], t[2], t[3], Nil))
       \/ (\E t \in SliceRegTargets :
              CallRegisterCapability(t[1], t[2], t[3], Nil)))
      => UNCHANGED <<capabilities, models>>]_vars

ErrStreamingNotSupported == "streaming is not supported by this provider"

Panic == "panic: assignment to entry in nil map"

Remove(m, k) == [x \in (DOMAIN m) \ {k} |-> m[x]]

\* strings.Builder: the strings written one after the other.
RECURSIVE WriteStrings(_)
WriteStrings(strs) ==
  IF Len(strs) = 0 THEN "" ELSE Head(strs) \o WriteStrings(Tail(strs))

\* addMessagesToRequestBody / convertMessageTo<Vendor>Format: the printed
\* form of the messages the body carries.  Gemini maps the roles and skips
\* a message whose role it does not know; Ollama writes one prompt of
\* "role: content" paragraphs.
marshalMessages(p, messages) ==
  LET geminiRole(role) ==
        CASE role = "user" -> "user" [] role = "assistant" -> "model"
          [] role = "tool" -> "function" [] OTHER -> ""
      one(msg) ==
        IF p = ProviderGemini
          THEN IF geminiRole(msg.Role) = "" THEN ""
               ELSE "{role:" \o geminiRole(msg.Role) \o ",parts:[{text:"
                      \o msg.Content \o "}]}"
          ELSE "{role:" \o msg.Role \o ",content:" \o msg.Content \o "}"
  IN IF p = ProviderOllama
       THEN WriteStrings([i \in 1..Len(messages) |->
              (IF i > 1 THEN "\n\n" ELSE "")
                \o messages[i].Role \o ": " \o messages[i].Content])
       ELSE "[" \o WriteStrings([i \in 1..Len(messages) |-> one(messages[i])]) \o "]"

\* for k, v := range options { if !isGlobalOption(k) { requestBody[k] = v } }
AddOptions(requestBody, kv, global) ==
  [k \in (DOMAIN requestBody) \cup ((DOMAIN kv) \ global) |->
     IF k \in (DOMAIN kv) \ global THEN kv[k] ELSE requestBody[k]]

\* "Determine which model to use": req.Model, else options["model"], else
\* the adapter's model.
determineModel(p, req, options) ==
  IF req.Model # "" THEN req.Model
  ELSE IF "model" \in DOMAIN options.kv /\ options.kv["model"] # ""
    THEN options.kv["model"]
  ELSE adapters[p]

PrepareResult(err, body, options) ==
  [err |-> err, body |-> body, options |-> options]

anthropicIsGlobalOption ==
  {"system_prompt", "max_tokens", "tools", "tool_choice", "enable_caching"}

AnthropicRequestBody(req, options, model, stream) ==
  LET b0 == ("model" :> model) @@ ("max_tokens" :> Get(pOptions, "max_tokens", "null"))
              @@ ("system" :> "[]")
              @@ ("messages" :> marshalMessages(ProviderAnthropic, req.Messages))
      b1 == IF stream THEN Put(b0, "stream", "true") ELSE b0
      b2 == IF req.ResponseSchema # NilSchema
                /\ ProviderHasCapability(ProviderAnthropic, CapStructuredResponse, model)
              THEN Put(b1, "system", "[schema]") ELSE b1
  IN AddOptions(b2, options.kv, anthropicIsGlobalOption)

AnthropicPrepareRequest(req, options) ==
  LET model == determineModel(ProviderAnthropic, req, options)
  IN PrepareResult("", AnthropicRequestBody(req, options, model, FALSE), options)

AnthropicPrepareStreamRequest(req, options) ==
  LET model == determineModel(ProviderAnthropic, req, options)
  IN IF ~ProviderHasCapability(ProviderAnthropic, CapStreaming, model)
       THEN PrepareResult(ErrStreamingNotSupported, NilBody, options)
       ELSE PrepareResult("", AnthropicRequestBody(req, options, model, TRUE), options)

groqIsGlobalOption ==
  {"messages", "system_prompt", "structured_messages", "structured_response_schema"}

GroqPrepareRequest(req, options) ==
  LET model == determineModel(ProviderGroq, req, options)
      b0 == ("model" :> model)
              @@ ("messages" :> marshalMessages(ProviderGroq, req.Messages))
      b1 == IF req.ResponseSchema # NilSchema
                /\ Get(options.kv, "stream", "") # "true"
              THEN Put(b0, "response_format", "schema") ELSE b0
  IN PrepareResult("", AddOptions(AddOptions(b1, pOptions, groqIsGlobalOption),
                                  options.kv, groqIsGlobalOption), options)

GroqPrepareStreamRequest(req, options) ==
  LET model == determineModel(ProviderGroq, req, options)
  IN IF ~ProviderHasCapability(ProviderGroq, CapStreaming, model)
       THEN PrepareResult(ErrStreamingNotSupported, NilBody, options)
       ELSE LET res == GroqPrepareRequest(
                         req, Options(Put(options.kv, "stream", "true")))
            IN PrepareResult(res.err, res.body,
                             IF options.isNil THEN options ELSE res.options)

OllamaPrepareRequest(req, options) ==
  LET model == determineModel(ProviderOllama, req, options)
      b0 == IF Len(req.Messages) > 0
              THEN ("model" :> model)
                     @@ ("prompt" :> marshalMessages(ProviderOllama, req.Messages))
              ELSE "model" :> model
  IN PrepareResult("", AddOptions(b0, options.kv, {}), options)

OllamaPrepareStreamRequest(req, options) ==
  IF options.isNil THEN PrepareResult(Panic, NilBody, options)
  ELSE OllamaPrepareRequest(req, Options(Put(options.kv, "stream", "true")))

openAIIsGlobalOption ==
  {"system_prompt", "tools", "tool_choice", "structured_messages", "stream"}

needsMaxCompletionTokens(model) ==
  \/ HasPrefix(model, "o")
  \/ Contains(model, "4o") \/ Contains(model, "-o")

handleTokenParameters(mergedOptions) ==
  IF needsMaxCompletionTokens(adapters[ProviderOpenAI])
    THEN IF "max_tokens" \in DOMAIN mergedOptions
           THEN Remove(Put(mergedOptions, "max_completion_tokens",
                           mergedOptions["max_tokens"]), "max_tokens")
           ELSE mergedOptions
    ELSE IF "max_completion_tokens" \in DOMAIN mergedOptions
           THEN Remove(Put(mergedOptions, "max_tokens",
                           mergedOptions["max_completion_tokens"]),
                       "max_completion_tokens")
           ELSE mergedOptions

OpenAIRequestBody(req, options, model, stream) ==
  LET b0 == ("model" :> model)
              @@ ("messages" :> marshalMessages(ProviderOpenAI, req.Messages))
      b1 == IF stream
              THEN Put(Put(b0, "stream", "true"), "stream_options", "include_usage")
              ELSE b0
      b2 == IF req.ResponseSchema # NilSchema
                /\ ProviderHasCapability(ProviderOpenAI, CapStructuredResponse, model)
              THEN Put(b1, "response_format", "schema") ELSE b1
      mergedOptions ==
        handleTokenParameters(
          AddOptions(AddOptions(EmptyMap, pOptions, openAIIsGlobalOption),
                     options.kv, openAIIsGlobalOption))
  IN AddOptions(b2, mergedOptions, {})

OpenAIPrepareRequest(req, options) ==
  LET model == determineModel(ProviderOpenAI, req, options)
  IN PrepareResult("", OpenAIRequestBody(req, options, model, FALSE), options)

OpenAIPrepareStreamRequest(req, options) ==
  LET model == determineModel(ProviderOpenAI, req, options)
  IN IF ~ProviderHasCapability(ProviderOpenAI, CapStreaming, model)
       THEN PrepareResult(ErrStreamingNotSupported, NilBody, options)
       ELSE PrepareResult("", OpenAIRequestBody(req, options, model, TRUE), options)

MistralRequestBody(req, options, model, stream) ==
  LET b0 == ("model" :> model) @@ ("max_tokens" :> Get(pOptions, "max_tokens", "null"))
              @@ ("messages" :> marshalMessages(ProviderMistral, req.Messages))
      b1 == IF stream THEN Put(b0, "stream", "true") ELSE b0
      b2 == IF req.ResponseSchema # NilSchema
                /\ ProviderHasCapability(ProviderMistral, CapStructuredResponse, model)
              THEN Put(b1, "response_format", "schema") ELSE b1
  IN AddOptions(AddOptions(b2, pOptions, {"max_tokens"}), options.kv,
                {"system_prompt"})

MistralPrepareRequest(req, options) ==
  LET model == determineModel(ProviderMistral, req, options)
  IN PrepareResult("", MistralRequestBody(req, options, model, FALSE), options)

MistralPrepareStreamRequest(req, options) ==
  LET model == determineModel(ProviderMistral, req, options)
  IN PrepareResult("", MistralRequestBody(req, options, model, TRUE), options)

cohereIsGlobalOption ==
  {"system_prompt", "preamble", "messages", "response_format", "stream"}

CohereRequestBody(req, options, model, stream) ==
  LET b0 == ("model" :> model)
              @@ ("messages" :> marshalMessages(ProviderCohere, req.Messages))
      b1 == IF stream THEN Put(b0, "stream", "true") ELSE b0
      b2 == IF req.ResponseSchema # NilSchema
                /\ ProviderHasCapability(ProviderCohere, CapStructuredResponse, model)
              THEN Put(b1, "response_format", "schema") ELSE b1
  IN AddOptions(AddOptions(b2, pOptions, cohereIsGlobalOption), options.kv,
                cohereIsGlobalOption)

CoherePrepareRequest(req, options) ==
  LET model == determineModel(ProviderCohere, req, options)
  IN PrepareResult("", CohereRequestBody(req, options, model, FALSE), options)

CoherePrepareStreamRequest(req, options) ==
  LET model == determineModel(ProviderCohere, req, options)
  IN PrepareResult("", CohereRequestBody(req, options, model, TRUE), options)

geminiIsGlobalOption ==
  {"system_prompt", "tools", "tool_choice", "structured_messages", "stream",
   "function_call_mode", "temperature", "top_p", "top_k", "stop_sequences",
   "max_tokens"}

\* buildGenerationConfig: the five adapter options Gemini sends, under the
\* names of its generationConfig object.
buildGenerationConfig ==
  LET names == ("temperature" :> "temperature") @@ ("max_tokens" :> "maxOutputTokens")
                 @@ ("top_p" :> "topP") @@ ("top_k" :> "topK")
                 @@ ("stop_sequences" :> "stopSequences")
      set == (DOMAIN names) \cap (DOMAIN pOptions)
  IN [n \in {names[k] : k \in set} |->
        pOptions[CHOOSE k \in set : names[k] = n]]

GeminiPrepareRequest(req, options) ==
  LET b0 == "contents" :> marshalMessages(ProviderGemini, req.Messages)
      b1 == IF req.ResponseSchema # NilSchema
              THEN Put(Put(b0, "generationConfig.responseMimeType", "application/json"),
                       "generationConfig.responseSchema", "schema")
              ELSE b0
      genConfig == buildGenerationConfig
      b2 == [k \in (DOMAIN b1) \cup {"generationConfig." \o n : n \in DOMAIN genConfig} |->
               IF k \in DOMAIN b1 THEN b1[k]
               ELSE genConfig[CHOOSE n \in DOMAIN genConfig :
                                "generationConfig." \o n = k]]
  IN PrepareResult("", AddOptions(b2, options.kv, geminiIsGlobalOption), options)

GeminiPrepareStreamRequest(req, options) ==
  LET model == determineModel(ProviderGemini, req, options)
  IN IF ~ProviderHasCapability(ProviderGemini, CapStreaming, model)
       THEN PrepareResult(ErrStreamingNotSupported, NilBody, options)
       ELSE GeminiPrepareRequest(req, options)

\* GeminiProvider.Endpoint: the URL for p.model, streaming or unary.
GeminiEndpoint ==
  LET modelName == IF HasPrefix(adapters[ProviderGemini], "models/")
                     THEN adapters[ProviderGemini]
                     ELSE "models/" \o adapters[ProviderGemini]
      base == "https://generativelanguage.googleapis.com/v1beta/" \o modelName
  IN IF streamMode THEN base \o ":streamGenerateContent?alt=sse"
     ELSE base \o ":generateContent"

\* A variant of SetOption that rewrites the key for the bound model and
\* leaves the other token-limit key in the map.
SetOptionKeepsOtherKey(p, opts, key, value) ==
  IF p = ProviderOpenAI /\ key = "max_tokens"
       /\ needsMaxCompletionTokens(adapters[ProviderOpenAI])
    THEN Put(opts, "max_completion_tokens", value)
    ELSE Put(opts, key, value)

\* <Adapter>.SetOption: an assignment to p.options; the OpenAI adapter first
\* moves a token limit to the key its bound model takes.
SetOption(p, opts, key, value) ==
  IF p # ProviderOpenAI THEN Put(opts, key, value)
  ELSE LET needs == needsMaxCompletionTokens(adapters[ProviderOpenAI])
       IN IF key = "max_tokens"
            THEN IF needs
                   THEN Put(Remove(opts, "max_tokens"), "max_completion_tokens", value)
                   ELSE Put(Remove(opts, "max_completion_tokens"), key, value)
          ELSE IF key = "max_completion_tokens"
            THEN Put(Remove(opts, "max_tokens"), key, value)
          ELSE Put(opts, key, value)

\* <Adapter>.SetDefaultOptions(cfg) with cfg.Seed nil: SetOption for the
\* temperature and the token limit, and the adapter's further defaults.
SetDefaultOptions(p, opts, cfg) ==
  LET o1 == SetOption(p, opts, "temperature", cfg.Temperature)
  IN CASE p = ProviderOllama ->
            LET o2 == SetOption(p, o1, "num_predict", cfg.MaxTokens)
                rest == {"top_p", "min_p", "repeat_penalty", "repeat_last_n",
                         "mirostat", "mirostat_eta", "mirostat_tau", "tfs_z"}
            IN [k \in (DOMAIN o2) \cup rest |->
                  IF k \in rest THEN cfg.Sampling ELSE o2[k]]
       [] p = ProviderCohere ->
            SetOption(p, SetOption(p, o1, "max_tokens", cfg.MaxTokens),
                      "stream", "false")
       [] OTHER -> SetOption(p, o1, "max_tokens", cfg.MaxTokens)

(***************************************************************************)
(* The caller holds one adapter and prepares requests with it.             *)
(***************************************************************************)
PrepRequests(p) ==
  [Model : {""} \cup ModelsOf(p), ResponseSchema : {NilSchema, "schema"},
   SystemPrompt : {""}, Messages : {<<[Role |-> "user", Content |-> "hi"]>>}]
  \cup [Model : {""}, ResponseSchema : {NilSchema, "schema"},
        SystemPrompt : {""}, Messages : {<<>>}]

PrepOptions(p) ==
  {NilOptions, Options(EmptyMap), Options("model" :> UnknownModel),
   Options("model" :> AllModels[p][1]), Options("temperature" :> "9"),
   Options("max_tokens" :> "9"), Options("max_completion_tokens" :> "9")}

\* The keys and the value a caller gives to SetOption, and the configuration
\* given to SetDefaultOptions.
\* The two keys under which the OpenAI adapter stores a token limit.
TokenLimitKeys == {"max_tokens", "max_completion_tokens"}

SetOptionKeys == {"temperature", "max_tokens", "max_completion_tokens"}

DefaultConfig == [Temperature |-> "7", MaxTokens |-> "7", Sampling |-> "7"]

CallSetOption(key, value) ==
  /\ activeProvider \in Providers
  /\ adapters[activeProvider] # NoAdapter
  /\ pOptions' = SetOption(activeProvider, pOptions, key, value)
  /\ lastPrepare' = NoPrepare
  /\ lastLimit' = IF key \in TokenLimitKeys THEN value ELSE lastLimit
  /\ UNCHANGED <<lastParse, extraHeaders, givenHeaders, lastSchema>>
  /\ UNCHANGED <<regVars, activeProvider, streamMode, streamVars, concVars>>

CallSetDefaultOptions(cfg) ==
  /\ activeProvider \in Providers
  /\ adapters[activeProvider] # NoAdapter
  /\ pOptions' = SetDefaultOptions(activeProvider, pOptions, cfg)
  /\ lastPrepare' = NoPrepare
  /\ lastLimit' = IF activeProvider = ProviderOllama THEN lastLimit
                  ELSE cfg.MaxTokens
  /\ UNCHANGED <<lastParse, extraHeaders, givenHeaders, lastSchema>>
  /\ UNCHANGED <<regVars, activeProvider, streamMode, streamVars, concVars>>

\* A variant of RequestAfter in which the adapter takes the messages out of
\* the caller's request.
RequestAfterConsumed(p, req) == [req EXCEPT !.Messages = <<>>]

\* The caller's Request when Prepare(Stream)Request has returned: the
\* adapters read req.Model, req.SystemPrompt, req.Messages and
\* req.ResponseSchema through the pointer and assign to none of them.
RequestAfter(p, req) == req

\* The call's record: its inputs, the effective model and what the
\* registry held for it when the call was made, and the result.
Prepared(p, op, req, options, res) ==
  LET model == determineModel(p, req, options)
  IN [op |-> op, req |-> req, reqAfter |-> RequestAfter(p, req),
      options |-> options, model |-> model,
      hadStreaming |-> ProviderHasCapability(p, CapStreaming, model),
      hadStructured |-> ProviderHasCapability(p, CapStructuredResponse, model),
      err |-> res.err, body |-> res.body, optionsAfter |-> res.options]

CallPrepare(p, op, req, options, res) ==
  /\ activeProvider = p
  /\ adapters[p] # NoAdapter
  /\ lastPrepare' = Prepared(p, op, req, options, res)
  /\ UNCHANGED <<lastParse, extraHeaders, givenHeaders, lastLimit, lastSchema>>
  /\ streamMode' =
       IF p = ProviderGemini /\ op = "PrepareStreamRequest" /\ res.err = ""
         THEN TRUE ELSE streamMode
  /\ UNCHANGED <<regVars, activeProvider, pOptions, streamVars, concVars>>

CallAnthropicPrepareRequest(req, options) ==
  CallPrepare(ProviderAnthropic, "PrepareRequest", req, options,
              AnthropicPrepareRequest(req, options))

CallAnthropicPrepareStreamRequest(req, options) ==
  CallPrepare(ProviderAnthropic, "PrepareStreamRequest", req, options,
              AnthropicPrepareStreamRequest(req, options))

CallGroqPrepareRequest(req, options) ==
  CallPrepare(ProviderGroq, "PrepareRequest", req, options,
              GroqPrepareRequest(req, options))

CallGroqPrepareStreamRequest(req, options) ==
  CallPrepare(ProviderGroq, "PrepareStreamRequest", req, options,
              GroqPrepareStreamRequest(req, options))

CallOllamaPrepareRequest(req, options) ==
  CallPrepare(ProviderOllama, "PrepareRequest", req, options,
              OllamaPrepareRequest(req, options))

CallOllamaPrepareStreamRequest(req, options) ==
  CallPrepare(ProviderOllama, "PrepareStreamRequest", req, options,
              OllamaPrepareStreamRequest(req, options))

CallOpenAIPrepareRequest(req, options) ==
  CallPrepare(ProviderOpenAI, "PrepareRequest", req, options,
              OpenAIPrepareRequest(req, options))

CallOpenAIPrepareStreamRequest(req, options) ==
  CallPrepare(ProviderOpenAI, "PrepareStreamRequest", req, options,
              OpenAIPrepareStreamRequest(req, options))

CallMistralPrepareRequest(req, options) ==
  CallPrepare(ProviderMistral, "PrepareRequest", req, options,
              MistralPrepareRequest(req, options))

CallMistralPrepareStreamRequest(req, options) ==
  CallPrepare(ProviderMistral, "PrepareStreamRequest", req, options,
              MistralPrepareStreamRequest(req, options))

CallCoherePrepareRequest(req, options) ==
  CallPrepare(ProviderCohere, "PrepareRequest", req, options,
              CoherePrepareRequest(req, options))

CallCoherePrepareStreamRequest(req, options) ==
  CallPrepare(ProviderCohere, "PrepareStreamRequest", req, options,
              CoherePrepareStreamRequest(req, options))

CallGeminiPrepareRequest(req, options) ==
  CallPrepare(ProviderGemini, "PrepareRequest", req, options,
              GeminiPrepareRequest(req, options))

CallGeminiPrepareStreamRequest(req, options) ==
  CallPrepare(ProviderGemini, "PrepareStreamRequest", req, options,
              GeminiPrepareStreamRequest(req, options))

InitPrepare ==
  /\ activeProvider \in Providers
  /\ build = IF activeProvider \in MapProviders THEN "map" ELSE "slice"
  /\ InitRegistry
  /\ InitStream
  /\ InitConc(TRUE)

NextPrepare ==
  \/ \E m \in BoundModels(ProviderAnthropic) :
       activeProvider = ProviderAnthropic /\ NewAnthropicProvider(m)
  \/ \E m \in BoundModels(ProviderGroq) :
       activeProvider = ProviderGroq /\ NewGroqProvider(m)
  \/ \E m \in BoundModels(ProviderOllama) :
       activeProvider = ProviderOllama /\ NewOllamaProvider(m)
  \/ \E m \in BoundModels(ProviderOpenAI) :
       activeProvider = ProviderOpenAI /\ NewOpenAIProvider(m)
  \/ \E m \in BoundModels(ProviderMistral) :
       activeProvider = ProviderMistral /\ NewMistralProvider(m)
  \/ \E m \in BoundModels(ProviderCohere) :
       activeProvider = ProviderCohere /\ NewCohereProvider(m)
  \/ \E m \in BoundModels(ProviderGemini) :
       activeProvider = ProviderGemini /\ NewGeminiProvider(m)
  \/ CallClear
  \/ CallClearSlice
  \/ \E key \in SetOptionKeys : CallSetOption(key, "7")
  \/ CallSetDefaultOptions(DefaultConfig)
  \/ \E req \in PrepRequests(ProviderAnthropic) : \E options \in PrepOptions(ProviderAnthropic) :
       CallAnthropicPrepareRequest(req, options)
  \/ \E req \in PrepRequests(ProviderAnthropic) : \E options \in PrepOptions(ProviderAnthropic) :
       CallAnthropicPrepareStreamRequest(req, options)
  \/ \E req \in PrepRequests(ProviderGroq) : \E options \in PrepOptions(ProviderGroq) :
       CallGroqPrepareRequest(req, options)
  \/ \E req \in PrepRequests(ProviderGroq) : \E options \in PrepOptions(ProviderGroq) :
       CallGroqPrepareStreamRequest(req, options)
  \/ \E req \in PrepRequests(ProviderOllama) : \E options \in PrepOptions(ProviderOllama) :
       CallOllamaPrepareRequest(req, options)
  \/ \E req \in PrepRequests(ProviderOllama) : \E options \in PrepOptions(ProviderOllama) :
       CallOllamaPrepareStreamRequest(req, options)
  \/ \E req \in PrepRequests(ProviderOpenAI) : \E options \in PrepOptions(ProviderOpenAI) :
       CallOpenAIPrepareRequest(req, options)
  \/ \E req \in PrepRequests(ProviderOpenAI) : \E options \in PrepOptions(ProviderOpenAI) :
       CallOpenAIPrepareStreamRequest(req, options)
  \/ \E req \in PrepRequests(ProviderMistral) : \E options \in PrepOptions(ProviderMistral) :
       CallMistralPrepareRequest(req, options)
  \/ \E req \in PrepRequests(ProviderMistral) : \E options \in PrepOptions(ProviderMistral) :
       CallMistralPrepareStreamRequest(req, options)
  \/ \E req \in PrepRequests(ProviderCohere) : \E options \in PrepOptions(ProviderCohere) :
       CallCoherePrepareRequest(req, options)
  \/ \E req \in PrepRequests(ProviderCohere) : \E options \in PrepOptions(ProviderCohere) :
       CallCoherePrepareStreamRequest(req, options)
  \/ \E req \in PrepRequests(ProviderGemini) : \E options \in PrepOptions(ProviderGemini) :
       CallGeminiPrepareRequest(req, options)
  \/ \E req \in PrepRequests(ProviderGemini) : \E options \in PrepOptions(ProviderGemini) :
       CallGeminiPrepareStreamRequest(req, options)

SpecPrepare == InitPrepare /\ [][NextPrepare]_vars

\* The caller constructs an adapter and prepares requests with a nil and
\* with an empty options map.
RequestOptions == {NilOptions, Options(EmptyMap)}

NextRequests ==
  \/ \E m \in BoundModels(activeProvider) :
       NewMapProvider(activeProvider, m, EmptyMap)
  \/ \E m \in BoundModels(activeProvider) :
       NewSliceProvider(activeProvider, m, EmptyMap)
  \/ \E req \in PrepRequests(ProviderAnthropic) : \E options \in RequestOptions :
       CallAnthropicPrepareRequest(req, options)
  \/ \E req \in PrepRequests(ProviderAnthropic) : \E options \in RequestOptions :
       CallAnthropicPrepareStreamRequest(req, options)
  \/ \E req \in PrepRequests(ProviderGroq) : \E options \in RequestOptions :
       CallGroqPrepareRequest(req, options)
  \/ \E req \in PrepRequests(ProviderGroq) : \E options \in RequestOptions :
       CallGroqPrepareStreamRequest(req, options)
  \/ \E req \in PrepRequests(ProviderOllama) : \E options \in RequestOptions :
       CallOllamaPrepareRequest(req, options)
  \/ \E req \in PrepRequests(ProviderOllama) : \E options \in RequestOptions :
       CallOllamaPrepareStreamRequest(req, options)
  \/ \E req \in PrepRequests(ProviderOpenAI) : \E options \in RequestOptions :
       CallOpenAIPrepareRequest(req, options)
  \/ \E req \in PrepRequests(ProviderOpenAI) : \E options \in RequestOptions :
       CallOpenAIPrepareStreamRequest(req, options)
  \/ \E req \in PrepRequests(ProviderMistral) : \E options \in RequestOptions :
       CallMistralPrepareRequest(req, options)
  \/ \E req \in PrepRequests(ProviderMistral) : \E options \in RequestOptions :
       CallMistralPrepareStreamRequest(req, options)
  \/ \E req \in PrepRequests(ProviderCohere) : \E options \in RequestOptions :
       CallCoherePrepareRequest(req, options)
  \/ \E req \in PrepRequests(ProviderCohere) : \E options \in RequestOptions :
       CallCoherePrepareStreamRequest(req, options)
  \/ \E req \in PrepRequests(ProviderGemini) : \E options \in RequestOptions :
       CallGeminiPrepareRequest(req, options)
  \/ \E req \in PrepRequests(ProviderGemini) : \E options \in RequestOptions :
       CallGeminiPrepareStreamRequest(req, options)

SpecRequests == InitPrepare /\ [][NextRequests]_vars

\* C3: PrepareStreamRequest of any adapter, called when the registry holds
\* no streaming descriptor for the effective (provider, model), returns
\* the capability error and no request body.
C3_StreamRequiresStreaming ==
  (lastPrepare.op = "PrepareStreamRequest" /\ ~lastPrepare.hadStreaming)
    => (lastPrepare.err = ErrStreamingNotSupported /\ lastPrepare.body = NilBody)

\* C4: PrepareRequest or PrepareStreamRequest called with a response
\* schema when the registry holds no structured_response descriptor for
\* the effective (provider, model) fails and returns no request body.
C4_SchemaRequiresStructured ==
  (lastPrepare.op # "none" /\ lastPrepare.req.ResponseSchema # NilSchema
     /\ ~lastPrepare.hadStructured)
    => (lastPrepare.err # "" /\ lastPrepare.body = NilBody)

\* C16: the model written to the request body is the effective model of
\* the call (req.Model when non-empty, else options["model"] when non-empty,
\* else the adapter's model), and a call refused for streaming is one whose
\* effective model has no streaming descriptor.
C16_EffectiveModelInBody ==
  LET call == lastPrepare
      effective ==
        IF call.req.Model # "" THEN call.req.Model
        ELSE IF Get(call.options.kv, "model", "") # "" THEN call.options.kv["model"]
        ELSE adapters[activeProvider]
  IN /\ (call.op # "none" /\ call.err = "") =>
          ("model" \in DOMAIN call.body /\ call.body["model"] = effective)
     /\ (call.op # "none" /\ call.err = ErrStreamingNotSupported) =>
          ~HasCapability(activeProvider, effective, CapStreaming)

\* C17: an OpenAI request body never holds both max_tokens and
\* max_completion_tokens; and when the effective model is a reasoning-tier
\* model and a limit was given as max_tokens (per call, or on the adapter
\* with none per call), the body holds it as max_completion_tokens and holds
\* no max_tokens.
C17_MaxCompletionTokens ==
  LET call == lastPrepare
      kv == call.options.kv
      supplied == "max_tokens" \in (DOMAIN kv) \cup (DOMAIN pOptions)
      limit == IF "max_tokens" \in DOMAIN kv THEN kv["max_tokens"]
               ELSE pOptions["max_tokens"]
  IN (activeProvider = ProviderOpenAI /\ call.op # "none" /\ call.err = "") =>
       /\ ~({"max_tokens", "max_completion_tokens"} \subseteq DOMAIN call.body)
       /\ (needsMaxCompletionTokens(call.model) /\ supplied) =>
            /\ Get(call.body, "max_completion_tokens", "") = limit
            /\ "max_tokens" \notin DOMAIN call.body

\* C18: after a successful PrepareRequest on the Gemini adapter Endpoint is
\* the :generateContent URL, after a successful PrepareStreamRequest the
\* :streamGenerateContent?alt=sse URL.
C18_GeminiEndpointFollowsRequest ==
  (activeProvider = ProviderGemini /\ lastPrepare.op # "none"
     /\ lastPrepare.err = "") =>
    GeminiEndpoint =
      "https://generativelanguage.googleapis.com/v1beta/models/"
        \o adapters[ProviderGemini]
        \o (IF lastPrepare.op = "PrepareStreamRequest"
              THEN ":streamGenerateContent?alt=sse" ELSE ":generateContent")

\* C19: every option key other than the consumed ones reaches the body with
\* the per-call value when the call gives one, else with the value set on
\* the adapter.  (A value counts as carried under the name the vendor uses:
\* either token-limit key for OpenAI, a generationConfig field for Gemini.)
C19_OptionPrecedence ==
  LET call == lastPrepare
      kv == call.options.kv
      body == call.body
      consumed == {"system_prompt", "tools", "tool_choice",
                   "structured_messages", "enable_caching", "stream"}
      tokenKeys == {"max_tokens", "max_completion_tokens"}
      carried(k, v) ==
        \/ k \in DOMAIN body /\ body[k] = v
        \/ /\ activeProvider = ProviderOpenAI /\ k \in tokenKeys
           /\ \E t \in tokenKeys : Get(body, t, "") = v
        \/ /\ activeProvider = ProviderGemini
           /\ \E n \in {"temperature", "maxOutputTokens", "topP", "topK",
                        "stopSequences"} :
                Get(body, "generationConfig." \o n, "") = v
  IN (call.op # "none" /\ call.err = "") =>
       \A k \in ((DOMAIN kv) \cup (DOMAIN pOptions)) \ consumed :
         carried(k, IF k \in DOMAIN kv THEN kv[k] ELSE pOptions[k])

\* C21: a call whose request has no messages returns an error and no body.
C21_EmptyMessagesRejected ==
  (lastPrepare.op # "none" /\ Len(lastPrepare.req.Messages) = 0) =>
    (lastPrepare.err # "" /\ lastPrepare.body = NilBody)

C30_StreamRequestKeepsOptions ==
  LET call == lastPrepare
      unary(options) ==
        CASE activeProvider = ProviderAnthropic -> AnthropicPrepareRequest(call.req, options)
          [] activeProvider = ProviderGroq -> GroqPrepareRequest(call.req, options)
          [] activeProvider = ProviderOllama -> OllamaPrepareRequest(call.req, options)
          [] activeProvider = ProviderOpenAI -> OpenAIPrepareRequest(call.req, options)
          [] activeProvider = ProviderMistral -> MistralPrepareRequest(call.req, options)
          [] activeProvider = ProviderCohere -> CoherePrepareRequest(call.req, options)
          [] activeProvider = ProviderGemini -> GeminiPrepareRequest(call.req, options)
  IN call.op = "PrepareStreamRequest" =>
       /\ call.err # Panic
       /\ call.optionsAfter = call.options
       /\ "stream" \notin DOMAIN unary(call.optionsAfter).body
       /\ unary(call.optionsAfter).body = unary(call.options).body

(***************************************************************************)
(* The streaming pipeline.  A line of the body is a sequence of tokens: a  *)
(* literal piece of text Lit(s), or a JSON value JSON(j) standing for its  *)
(* text, where j has exactly the keys the text has.                        *)
(***************************************************************************)
Lit(str) == [lit |-> str]

JSON(j) == [json |-> j]

DataLine(tok) == <<Lit("data"), Lit(":"), Lit(" "), tok>>

EventLine(name) == <<Lit("event"), Lit(":"), Lit(" "), Lit(name)>>

CommentLine == <<Lit(":"), Lit(" "), Lit("keep-alive")>>

\* bytes.Cut(line, ":"): the tokens before and after the first colon.
Cut(line, sep) ==
  IF \E i \in 1..Len(line) : line[i] = sep
    THEN LET i == CHOOSE i \in 1..Len(line) :
                    line[i] = sep /\ \A k \in 1..(i - 1) : line[k] # sep
         IN [before |-> SubSeq(line, 1, i - 1),
             after |-> SubSeq(line, i + 1, Len(line))]
    ELSE [before |-> line, after |-> <<>>]

\* One pass of the scan loop of SSEDecoder.Next over the lines read before
\* the next empty line (or before the end of the body).
RECURSIVE scanLines(_, _, _)
scanLines(lines, event, data) ==
  IF lines = <<>> THEN [Type |-> event, Data |-> data]
  ELSE LET cut == Cut(Head(lines), Lit(":"))
           name == cut.before
           value == IF Len(cut.after) > 0 /\ cut.after[1] = Lit(" ")
                      THEN Tail(cut.after) ELSE cut.after
       IN IF name = <<>> THEN scanLines(Tail(lines), event, data)
          ELSE IF name = <<Lit("event")>>
            THEN scanLines(Tail(lines),
                           IF value = <<>> THEN "" ELSE value[1].lit, data)
          ELSE IF name = <<Lit("data")>>
            THEN scanLines(Tail(lines), event, data \o value \o <<Lit("\n")>>)
          ELSE scanLines(Tail(lines), event, data)

\* SSEDecoder.Next: true with the dispatched event when an empty line ends
\* the lines, false when the body ends first.
DecoderNext(err, lines, atEOF) ==
  IF err # "" THEN [ok |-> FALSE, current |-> [Type |-> "", Data |-> <<>>]]
  ELSE IF atEOF THEN [ok |-> FALSE, current |-> [Type |-> "", Data |-> <<>>]]
  ELSE [ok |-> TRUE, current |-> scanLines(lines, "", <<>>)]

\* bytes.TrimSpace: the chunk without its leading and trailing white space.
TrimSpace(chunk) ==
  LET keep == {i \in 1..Len(chunk) : chunk[i] \notin {Lit(" "), Lit("\n")}}
      first == CHOOSE i \in keep : \A j \in keep : i <= j
      last == CHOOSE i \in keep : \A j \in keep : i >= j
  IN IF keep = {} THEN <<>> ELSE SubSeq(chunk, first, last)

\* json.Unmarshal of a chunk: one JSON value with white space around it.
Unmarshal(chunk) ==
  LET t == TrimSpace(chunk)
  IN IF Len(t) = 1 /\ "json" \in DOMAIN t[1]
       THEN [ok |-> TRUE, j |-> t[1].json]
       ELSE [ok |-> FALSE, j |-> EmptyMap]

\* A field of a JSON object, the zero value when the key is absent.
Field(j, key, zero) == IF key \in DOMAIN j THEN j[key] ELSE zero

NewUsage(inputTokens, cacheCreationTokens, outputTokens, cacheWriteTokens, reasoningTokens) ==
  [InputTokens |-> inputTokens, OutputTokens |-> outputTokens,
   CacheCreationTokens |-> cacheCreationTokens,
   CacheReadTokens |-> cacheWriteTokens, ReasoningTokens |-> reasoningTokens]

ZeroUsage == NewUsage(0, 0, 0, 0, 0)

Text(value) == [Value |-> value]

Response(content, usage) == [Content |-> content, Usage |-> usage]

Parsed(resp, err) == [resp |-> resp, err |-> err]

ErrEOF == "EOF"

anthropicUsage(j) ==
  [InputTokens |-> Field(j, "input_tokens", 0),
   OutputTokens |-> Field(j, "output_tokens", 0),
   CacheCreationInputTokens |-> Field(j, "cache_creation_input_tokens", 0),
   CacheReadInputTokens |-> Field(j, "cache_read_input_tokens", 0)]

anthropicEvent(j) ==
  [Type |-> Field(j, "type", ""),
   Delta |-> IF "delta" \in DOMAIN j
               THEN [Type |-> Field(j.delta, "type", ""),
                     Text |-> Field(j.delta, "text", "")]
               ELSE NilPtr,
   Usage |-> IF "usage" \in DOMAIN j THEN anthropicUsage(j.usage) ELSE NilPtr,
   Message |-> IF "message" \in DOMAIN j
                 THEN [Usage |-> IF "usage" \in DOMAIN j.message
                                   THEN anthropicUsage(j.message.usage)
                                   ELSE NilPtr]
                 ELSE NilPtr]

AnthropicParseStreamResponse(chunk) ==
  IF Len(TrimSpace(chunk)) = 0 THEN Parsed(NilPtr, "empty chunk")
  ELSE IF TrimSpace(chunk) = <<Lit("[DONE]")>> THEN Parsed(NilPtr, ErrEOF)
  ELSE IF ~Unmarshal(chunk).ok THEN Parsed(NilPtr, "malformed event")
  ELSE LET ev == anthropicEvent(Unmarshal(chunk).j)
       IN CASE ev.Type = "content_block_delta" ->
                 IF ev.Delta # NilPtr /\ ev.Delta.Type = "text_delta"
                      /\ ev.Delta.Text # ""
                   THEN Parsed(Response(Text(ev.Delta.Text), NilPtr), "")
                   ELSE Parsed(NilPtr, "skip token")
            [] ev.Type = "message_start" ->
                 IF ev.Message # NilPtr /\ ev.Message.Usage # NilPtr
                   THEN Parsed(Response(NilPtr,
                          NewUsage(ev.Message.Usage.InputTokens,
                                   ev.Message.Usage.CacheCreationInputTokens,
                                   ev.Message.Usage.OutputTokens, 0,
                                   ev.Message.Usage.CacheReadInputTokens)), "")
                   ELSE Parsed(NilPtr, "skip token")
            [] ev.Type = "message_delta" ->
                 IF ev.Usage # NilPtr
                   THEN Parsed(Response(NilPtr,
                          NewUsage(ev.Usage.InputTokens,
                                   ev.Usage.CacheCreationInputTokens,
                                   ev.Usage.OutputTokens, 0,
                                   ev.Usage.CacheReadInputTokens)), "")
                   ELSE Parsed(NilPtr, "skip token")
            [] ev.Type = "message_stop" -> Parsed(NilPtr, ErrEOF)
            [] OTHER -> Parsed(NilPtr, "skip token")

openAIUsage(j) ==
  [PromptTokens |-> Field(j, "prompt_tokens", 0),
   CompletionTokens |-> Field(j, "completion_tokens", 0),
   PromptTokensDetails |->
     IF "prompt_tokens_details" \in DOMAIN j
       THEN [CacheTokens |-> Field(j.prompt_tokens_details, "cache_tokens", 0)]
       ELSE NilPtr]

openAIStreamChoice(j) ==
  [Delta |-> [Role |-> IF "delta" \in DOMAIN j
                         THEN Field(j.delta, "role", "") ELSE "",
              Content |-> IF "delta" \in DOMAIN j
                            THEN Field(j.delta, "content", "") ELSE ""],
   FinishReason |-> Field(j, "finish_reason", "")]

openAIStreamResponse(j) ==
  [Usage |-> IF "usage" \in DOMAIN j THEN openAIUsage(j.usage) ELSE NilPtr,
   Choices |-> IF "choices" \in DOMAIN j
                 THEN [i \in 1..Len(j.choices) |-> openAIStreamChoice(j.choices[i])]
                 ELSE <<>>]

OpenAIParseStreamResponse(chunk) ==
  IF Len(TrimSpace(chunk)) = 0 THEN Parsed(NilPtr, "empty chunk")
  ELSE IF TrimSpace(chunk) = <<Lit("[DONE]")>> THEN Parsed(NilPtr, ErrEOF)
  ELSE IF ~Unmarshal(chunk).ok THEN Parsed(NilPtr, "malformed response")
  ELSE LET response == openAIStreamResponse(Unmarshal(chunk).j)
       IN IF Len(response.Choices) = 0
            THEN Parsed(NilPtr, "no choices in response")
          ELSE IF response.Choices[1].FinishReason # ""
            THEN Parsed(NilPtr, ErrEOF)
          ELSE IF response.Choices[1].Delta.Role # ""
                    /\ response.Choices[1].Delta.Content = ""
            THEN Parsed(NilPtr, "skip token")
          ELSE LET usage ==
                     IF response.Usage # NilPtr
                          /\ response.Usage.PromptTokensDetails # NilPtr
                       THEN NewUsage(response.Usage.PromptTokens,
                                     response.Usage.PromptTokensDetails.CacheTokens,
                                     response.Usage.CompletionTokens, 0, 0)
                       ELSE ZeroUsage
               IN Parsed(Response(Text(response.Choices[1].Delta.Content), usage), "")

MistralParseStreamResponse(chunk) ==
  IF Len(TrimSpace(chunk)) = 0 THEN Parsed(NilPtr, "empty chunk")
  ELSE IF TrimSpace(chunk) = <<Lit("[DONE]")>> THEN Parsed(NilPtr, ErrEOF)
  ELSE IF ~Unmarshal(chunk).ok THEN Parsed(NilPtr, "malformed response")
  ELSE LET j == Unmarshal(chunk).j
           Choices == Field(j, "choices", <<>>)
           Content(c) == IF "delta" \in DOMAIN c
                           THEN Field(c.delta, "content", "") ELSE ""
       IN IF Len(Choices) = 0 \/ Content(Choices[1]) = ""
            THEN Parsed(NilPtr, "skip token")
            ELSE Parsed(Response(Text(Content(Choices[1])), NilPtr), "")

\* strings.TrimPrefix(chunk, "data: ")
TrimPrefixData(chunk) ==
  IF Len(chunk) >= 3 /\ SubSeq(chunk, 1, 3) = <<Lit("data"), Lit(":"), Lit(" ")>>
    THEN SubSeq(chunk, 4, Len(chunk)) ELSE chunk

geminiResponse(j) ==
  [UsageMetadata |->
     IF "usageMetadata" \in DOMAIN j
       THEN [PromptTokenCount |-> Field(j.usageMetadata, "promptTokenCount", 0),
             CandidatesTokenCount |->
               Field(j.usageMetadata, "candidatesTokenCount", 0),
             CachedContentTokenCount |->
               Field(j.usageMetadata, "cachedContentTokenCount", 0)]
       ELSE NilPtr,
   Candidates |->
     LET cs == Field(j, "candidates", <<>>)
     IN [i \in 1..Len(cs) |->
           [Content |->
              [Parts |->
                 IF "content" \in DOMAIN cs[i]
                   THEN LET ps == Field(cs[i].content, "parts", <<>>)
                        IN [k \in 1..Len(ps) |->
                              [Text |-> Field(ps[k], "text", "")]]
                   ELSE <<>>]]]]

\* The parts carry text and no function call.
GeminiParseStreamResponse(chunk) ==
  LET dataStr == TrimPrefixData(chunk)
  IN IF TrimSpace(dataStr) = <<>> \/ TrimSpace(dataStr) = <<Lit("[DONE]")>>
       THEN Parsed(NilPtr, "skip chunk")
     ELSE IF ~Unmarshal(dataStr).ok THEN Parsed(NilPtr, "skip chunk")
     ELSE LET resp == geminiResponse(Unmarshal(dataStr).j)
          IN IF resp.UsageMetadata # NilPtr
               THEN Parsed(Response(NilPtr,
                      NewUsage(resp.UsageMetadata.PromptTokenCount,
                               resp.UsageMetadata.CachedContentTokenCount,
                               resp.UsageMetadata.CandidatesTokenCount, 0, 0)), "")
             ELSE IF Len(resp.Candidates) = 0
                       \/ Len(resp.Candidates[1].Content.Parts) = 0
               THEN Parsed(NilPtr, "skip chunk")
             ELSE LET parts == resp.Candidates[1].Content.Parts
                      finalText == WriteStrings([k \in 1..Len(parts) |-> parts[k].Text])
                  IN IF finalText = "" THEN Parsed(NilPtr, "skip chunk")
                     ELSE Parsed(Response(Text(finalText), NilPtr), "")

ParseStreamResponse(p, chunk) ==
  CASE p = ProviderAnthropic -> AnthropicParseStreamResponse(chunk)
    [] p = ProviderMistral -> MistralParseStreamResponse(chunk)
    [] p = ProviderGemini -> GeminiParseStreamResponse(chunk)
    [] OTHER -> OpenAIParseStreamResponse(chunk)

(***************************************************************************)
(* providerStream.                                                         *)
(***************************************************************************)
AsText(resp) == resp.Content.Value

createStreamToken(event, resp, index) ==
  LET streamToken ==
        [Text |-> "", Type |-> event.Type, Index |-> index,
         InputTokens |-> 0, OutputTokens |-> 0]
  IN IF resp = NilPtr THEN streamToken
     ELSE [streamToken EXCEPT
             !.Text = IF resp.Content # NilPtr THEN AsText(resp) ELSE @,
             !.InputTokens = IF resp.Usage # NilPtr THEN resp.Usage.InputTokens ELSE @,
             !.OutputTokens = IF resp.Usage # NilPtr THEN resp.Usage.OutputTokens ELSE @]

\* The (token, shouldContinue, err) triple the helpers of Next return.
Step(token, shouldContinue, err) ==
  [token |-> token, shouldContinue |-> shouldContinue, err |-> err]

\* A variant of processEventData that hands every parse error but the
\* "skip resp" sentinel to the caller of Next.
processEventDataStrict(p, event, index) ==
  LET parsed == ParseStreamResponse(p, event.Data)
  IN IF parsed.err # ""
       THEN IF parsed.err = "skip resp" THEN Step(NoToken, TRUE, "")
            ELSE Step(NoToken, FALSE, parsed.err)
       ELSE Step(createStreamToken(event, parsed.resp, index), FALSE, "")

processEventData(p, event, index) ==
  LET parsed == ParseStreamResponse(p, event.Data)
  IN IF parsed.err # ""
       THEN IF parsed.err = "skip resp" THEN Step(NoToken, TRUE, "")
            ELSE IF parsed.err = ErrEOF THEN Step(NoToken, FALSE, ErrEOF)
            ELSE Step(NoToken, TRUE, "")
       ELSE Step(createStreamToken(event, parsed.resp, index), FALSE, "")

handleDecoderEnd(err, shouldRetry) ==
  IF err # ""
    THEN IF shouldRetry THEN Step(NoToken, TRUE, "") ELSE Step(NoToken, FALSE, err)
    ELSE Step(NoToken, FALSE, ErrEOF)

processNextEvent(p, d, err, shouldRetry, index) ==
  IF ~d.ok THEN handleDecoderEnd(err, shouldRetry)
  ELSE IF Len(d.current.Data) = 0 THEN Step(NoToken, TRUE, "")
  ELSE processEventData(p, d.current, index)

\* A select that never takes the ctx.Done case (a mutant of selectCase).
selectAlwaysDefault(done) == "default"

\* select { case <-ctx.Done(): ... default: ... }
selectCase(done) == IF done THEN "ctx.Done" ELSE "default"

(***************************************************************************)
(* The frames a vendor sends.                                              *)
(***************************************************************************)
Texts == {"Hel", "lo"}

AnthropicPayloads ==
  {[type |-> "content_block_delta", delta |-> [type |-> "text_delta", text |-> t]] :
     t \in Texts \cup {""}}
  \cup {[type |-> "message_start",
         message |-> [usage |-> [input_tokens |-> i, output_tokens |-> 1]]] :
          i \in 1..MaxCount}
  \cup {[type |-> "message_delta", usage |-> [output_tokens |-> o]] :
          o \in 1..MaxCount}
  \cup {[type |-> "message_start", message |-> [id |-> "msg"]],
        [type |-> "message_delta", delta |-> [stop_reason |-> "end_turn"]],
        [type |-> "message_stop"], [type |-> "ping"]}

OpenAIPayloads ==
  {[choices |-> <<[delta |-> [content |-> t]]>>] : t \in Texts}
  \cup {[choices |-> <<[delta |-> [content |-> "lo"]]>>,
         usage |-> [prompt_tokens |-> n, completion_tokens |-> n,
                    prompt_tokens_details |-> [cache_tokens |-> 0]]] :
          n \in 1..MaxCount}
  \cup {[choices |-> <<[delta |-> [content |-> "lo"]]>>,
         usage |-> [prompt_tokens |-> 1, completion_tokens |-> 1]],
        [choices |-> <<>>,
         usage |-> [prompt_tokens |-> 1, completion_tokens |-> 1,
                    prompt_tokens_details |-> [cache_tokens |-> 0]]],
        [choices |-> <<[delta |-> [role |-> "assistant", content |-> ""]]>>],
        [choices |-> <<[delta |-> [content |-> ""], finish_reason |-> "stop"]>>]}

MistralPayloads ==
  {[choices |-> <<[delta |-> [content |-> t]]>>] : t \in Texts \cup {""}}
  \cup {[choices |-> <<>>]}

GeminiPayloads ==
  {[candidates |-> <<[content |-> [parts |-> <<[text |-> t]>>]]>>] : t \in Texts}
  \cup {[candidates |-> <<[content |-> [parts |-> <<[text |-> "lo"]>>]]>>,
         usageMetadata |-> [promptTokenCount |-> n, candidatesTokenCount |-> n]] :
          n \in 1..MaxCount}
  \cup {[candidates |-> <<[content |-> [parts |-> <<[text |-> "Hel"],
                                                    [text |-> "lo"]>>]]>>],
        [usageMetadata |-> [promptTokenCount |-> 1, candidatesTokenCount |-> 1]],
        [candidates |-> <<>>],
        [candidates |-> <<[content |-> [parts |-> <<>>]]>>]}

Payloads(p) ==
  CASE p = ProviderAnthropic -> AnthropicPayloads
    [] p = ProviderMistral -> MistralPayloads
    [] p = ProviderGemini -> GeminiPayloads
    [] OTHER -> OpenAIPayloads

\* The lines read up to an empty line.
Frames(p) ==
  {<<DataLine(JSON(j))>> : j \in Payloads(p)}
  \cup (IF p = ProviderAnthropic
          THEN {<<EventLine(j.type), DataLine(JSON(j))>> : j \in Payloads(p)}
          ELSE {})
  \cup {<<>>, <<CommentLine>>, <<EventLine("ping")>>,
        <<DataLine(Lit("[DONE]"))>>, <<DataLine(Lit("{"))>>,
        <<<<Lit("data"), Lit(":"), Lit("[DONE]")>>>>,
        <<DataLine(Lit("[DONE]")), DataLine(Lit("[DONE]"))>>}

\* The lines read up to the end of the body when no empty line follows.
Tails(p) == {<<>>, <<DataLine(Lit("[DONE]"))>>}

(***************************************************************************)
(* The caller of one stream: Next (a loop of select and processNextEvent), *)
(* the cancellation of its context, and Close.                             *)
(***************************************************************************)
\* Next returns (token, nil), (nil, io.EOF) or (nil, context canceled).
ReturnFromNext(result, token) ==
  /\ pc' = "idle"
  /\ lastResult' = result
  /\ lastToken' = IF result = "token" THEN token ELSE lastToken
  /\ prevToken' = IF result = "token" THEN lastToken ELSE prevToken
  /\ nYielded' = IF result = "token" THEN nYielded + 1 ELSE nYielded
  /\ eofReturned' = (eofReturned \/ result = ErrEOF)

CallNext ==
  /\ pc = "idle"
  /\ pc' = "select"
  /\ skipped' = 0
  /\ lastSkipErr' = ""
  /\ UNCHANGED <<regVars, prepVars, concVars, ctxDone, currentIndex, decoderErr,
                 framesRead, scanDone, closeCalled, readerClosed, lastResult,
                 lastToken, prevToken, nYielded, eofReturned, scanErr,
                 lastFrame>>

Select ==
  /\ pc = "select"
  /\ IF selectCase(ctxDone) = "ctx.Done"
       THEN ReturnFromNext("context canceled", NoToken)
       ELSE /\ pc' = "process"
            /\ UNCHANGED <<lastResult, lastToken, prevToken, nYielded, eofReturned>>
  /\ UNCHANGED <<regVars, prepVars, concVars, ctxDone, currentIndex, decoderErr,
                 framesRead, scanDone, closeCalled, readerClosed, skipped,
                 scanErr, lastSkipErr, lastFrame>>

\* The parse error of the event the decoder dispatched ("": it dispatched
\* none, or one without data, or the adapter parsed it).
parseErrOf(p, d) ==
  IF d.ok /\ Len(d.current.Data) > 0
    THEN ParseStreamResponse(p, d.current.Data).err ELSE ""

\* The default case of Next's select once processNextEvent has returned:
\* return the error, go round the loop again, or return the token.
AfterProcessNextEvent(ok, step, parseErr) ==
  /\ framesRead' = IF ok THEN framesRead + 1 ELSE framesRead
  /\ scanDone' = ~ok
  /\ lastSkipErr' = IF step.shouldContinue THEN parseErr ELSE ""
  /\ IF step.err # "" THEN /\ ReturnFromNext(step.err, NoToken)
                           /\ UNCHANGED skipped
     ELSE IF step.shouldContinue
       THEN /\ pc' = "select"
            /\ skipped' = skipped + 1
            /\ UNCHANGED <<lastResult, lastToken, prevToken, nYielded,
                           eofReturned>>
     ELSE /\ ReturnFromNext("token", step.token)
          /\ UNCHANGED skipped

ProcessNextEvent(lines, atEOF) ==
  /\ pc = "process"
  /\ (scanDone \/ framesRead = MaxFrames) => (atEOF /\ lines = <<>>)
  /\ LET d == DecoderNext(decoderErr, lines, atEOF)
     IN AfterProcessNextEvent(d.ok,
          processNextEvent(activeProvider, d, decoderErr, FALSE, currentIndex),
          parseErrOf(activeProvider, d))
  /\ UNCHANGED <<regVars, prepVars, concVars, ctxDone, currentIndex, decoderErr,
                 closeCalled, readerClosed, scanErr, lastFrame>>

Cancel ==
  /\ ~ctxDone
  /\ ctxDone' = TRUE
  /\ UNCHANGED <<regVars, prepVars, concVars, pc, currentIndex, decoderErr, framesRead,
                 scanDone, closeCalled, readerClosed, lastResult, lastToken,
                 prevToken, nYielded, eofReturned, skipped, scanErr, lastSkipErr,
                 lastFrame>>

\* providerStream.Close: returns nil.
Close ==
  /\ pc = "idle"
  /\ closeCalled' = TRUE
  /\ UNCHANGED <<regVars, prepVars, concVars, pc, ctxDone, currentIndex, decoderErr,
                 framesRead, scanDone, readerClosed, lastResult, lastToken,
                 prevToken, nYielded, eofReturned, skipped, scanErr, lastSkipErr,
                 lastFrame>>

StreamProviders == {ProviderAnthropic, ProviderOpenAI}

\* The adapter is constructed and a stream over a response body is open.
InitAdapterStream(ps) ==
  /\ activeProvider \in ps
  /\ build = IF activeProvider \in MapProviders THEN "map" ELSE "slice"
  /\ capabilities =
       IF build = "map"
         THEN registerCapabilitiesMap(EmptyMap, activeProvider,
                Registrations(activeProvider, AllModels[activeProvider]))
         ELSE EmptyMap
  /\ models =
       IF build = "slice"
         THEN registerCapabilitiesSlice(EmptyMap, activeProvider,
                Registrations(activeProvider, AllModels[activeProvider]))
         ELSE EmptyMap
  /\ adapters = [p \in Providers |->
                   IF p = activeProvider THEN AllModels[p][1] ELSE NoAdapter]
  /\ lastReg = NoteRegistrations(EmptyMap, activeProvider,
                 Registrations(activeProvider, AllModels[activeProvider]))
  /\ sinceClear = FALSE
  /\ streamMode = FALSE
  /\ lastPrepare = NoPrepare
  /\ lastParse = NoParse
  /\ pOptions = EmptyMap
  /\ extraHeaders = newExtraHeaders(activeProvider, EmptyMap)
  /\ givenHeaders = EmptyMap
  /\ lastLimit = ""
  /\ lastSchema = NoSchema
  /\ InitStream
  /\ InitConc(TRUE)

InitStreaming == InitAdapterStream(StreamProviders)

NextStream ==
  \/ CallNext
  \/ Select
  \/ \E lines \in Frames(activeProvider) : ProcessNextEvent(lines, FALSE)
  \/ \E lines \in Tails(activeProvider) : ProcessNextEvent(lines, TRUE)
  \/ Cancel
  \/ Close

SpecStream == InitStreaming /\ [][NextStream]_vars

\* The read of the body fails inside decoder.Next: Scan returns false and
\* the scanner keeps the error; the decoder returns false and copies
\* nothing into its err field, so Err() stays nil.
ProcessReadFailure(shouldRetry) ==
  /\ pc = "process"
  /\ ~scanDone
  /\ scanErr = ""
  /\ scanErr' = "unexpected EOF"
  /\ LET d == DecoderNext(decoderErr, <<>>, TRUE)
     IN AfterProcessNextEvent(d.ok,
          processNextEvent(activeProvider, d, decoderErr, shouldRetry,
                           currentIndex),
          parseErrOf(activeProvider, d))
  /\ UNCHANGED <<regVars, prepVars, concVars, ctxDone, currentIndex, decoderErr,
                 closeCalled, readerClosed, lastFrame>>

\* The adapters whose streams are read to the end or to a failed read.
FrameProviders == {ProviderMistral, ProviderGemini}

InitFrames == InitAdapterStream(FrameProviders)

NextFrames ==
  \/ CallNext
  \/ Select
  \/ \E lines \in Frames(activeProvider) : ProcessNextEvent(lines, FALSE)
  \/ \E lines \in Tails(activeProvider) : ProcessNextEvent(lines, TRUE)
  \/ \E shouldRetry \in BOOLEAN : ProcessReadFailure(shouldRetry)
  \/ Cancel
  \/ Close

SpecFrames == InitFrames /\ [][NextFrames]_vars

(***************************************************************************)
(* Properties of a stream.                                                 *)
(***************************************************************************)
\* C1: the k-th token Next returns (k = 0, 1, 2, ...) carries index k,
\* whatever frames were skipped between tokens.
C1_IndexCountsYieldedTokens ==
  lastResult = "token" => lastToken.Index = nYielded - 1

\* C5: once a Next has returned io.EOF, no later Next returns a token.
C5_NoTokenAfterEOF ==
  ~(eofReturned /\ lastResult = "token")

\* C6: a select reached with the context cancelled makes Next return the
\* cancellation error, leaving the body and the index as they are; and the
\* body is read only by a loop iteration whose select found the context
\* not cancelled.  So a Next called with a cancelled context reads nothing,
\* and a cancellation during the loop is seen at the next select, before
\* another frame is read.
C6_CancelSeenBeforeNextFrame ==
  [][/\ (pc = "select" /\ ctxDone /\ pc' # pc) =>
          /\ pc' = "idle"
          /\ lastResult' = "context canceled"
          /\ framesRead' = framesRead /\ scanDone' = scanDone
          /\ currentIndex' = currentIndex /\ nYielded' = nYielded
     /\ (framesRead' # framesRead \/ scanDone' # scanDone) => pc = "process"
    ]_vars

\* Next returned the cancellation error after it had skipped a frame, and
\* the frames read are those read before.
C6_Witness ==
  /\ pc = "idle"
  /\ lastResult = "context canceled"
  /\ skipped >= 1
  /\ framesRead = skipped
  /\ ~scanDone

\* C7: after Close the reader given to the stream is closed.
C7_CloseClosesReader ==
  closeCalled => readerClosed

\* C8: of two tokens Next returns one after the other, the later carries
\* input and output counts no smaller than the earlier.
C8_UsageNeverDecreases ==
  (lastResult = "token" /\ nYielded >= 2) =>
    /\ prevToken.InputTokens <= lastToken.InputTokens
    /\ prevToken.OutputTokens <= lastToken.OutputTokens

(***************************************************************************)
(* Goroutines.  Several goroutines call the registry accessor, Register,   *)
(* HasCapability and the adapter's SetOption at once.  The accessor runs   *)
(* its constructor under sync.Once; LoadOrStore and Load on the xsync map  *)
(* are atomic; an access to a plain Go map (the inner capability map, the  *)
(* adapter's options) or to an element of a ModelCapabilities slice takes  *)
(* time, from MapAccessBegin to MapAccessEnd.  A write that overlaps       *)
(* another access of the same object has an undefined outcome: the store   *)
(* may take effect, be lost, or (Go maps) stop the process.  No call starts *)
(* after a data race: the accesses in flight end and the run is over.      *)
(***************************************************************************)
\* A mutual-exclusion-free Once: every caller that finds f not finished
\* runs it.
onceEntersUnlessDone(state) == state # "done"

\* sync.Once.Do: f runs for the first caller only; callers that arrive while
\* it runs wait for it.
onceMayEnter(state) == state = "fresh"

\* GetRegistry / GetCapabilityRegistry up to the point where Do returns or f
\* is entered.
RegistryOnceDo(g) ==
  /\ ~fatal /\ raced = {}
  /\ gpc[g] = "idle"
  /\ IF onceState = "done"
       THEN /\ handle' = [handle EXCEPT ![g] = globalRegistry]
            /\ UNCHANGED <<gpc, onceState>>
       ELSE /\ onceMayEnter(onceState)
            /\ onceState' = "running"
            /\ gpc' = [gpc EXCEPT ![g] = "Once.f"]
            /\ UNCHANGED handle
  /\ UNCHANGED <<regVars, prepVars, streamVars, gop, globalRegistry, instances,
                 raced, fatal, completed>>

\* The function given to Do: construct the registry and publish it; then the
\* accessor returns the package variable.
RegistryOnceF(g) ==
  /\ ~fatal
  /\ gpc[g] = "Once.f"
  /\ instances' = instances + 1
  /\ globalRegistry' = instances + 1
  /\ onceState' = "done"
  /\ handle' = [handle EXCEPT ![g] = instances + 1]
  /\ gpc' = [gpc EXCEPT ![g] = "idle"]
  /\ UNCHANGED <<regVars, prepVars, streamVars, gop, raced, fatal, completed>>

\* Register / RegisterCapability up to the write of the inner container.
GoRegister(g, t, d) ==
  /\ ~fatal /\ raced = {}
  /\ gpc[g] = "idle"
  /\ handle[g] # 0
  /\ IF build = "map"
       THEN /\ capabilities' = LoadOrStore(capabilities, makeKey(t[1], t[2]), EmptyMap)
            /\ UNCHANGED models
       ELSE /\ models' = LoadOrStore(models, makeSlug(t[1], t[2]), NewModelCapabilities)
            /\ UNCHANGED capabilities
  /\ gop' = [gop EXCEPT ![g] =
               [op |-> "Register", cell |-> t, config |-> d, key |-> "",
                value |-> "", dirty |-> FALSE,
                target |-> IF build = "map" THEN makeKey(t[1], t[2])
                           ELSE makeSlug(t[1], t[2]) \o "#" \o t[3]]]
  /\ gpc' = [gpc EXCEPT ![g] = "write"]
  /\ UNCHANGED <<build, adapters, lastReg, sinceClear, prepVars, streamVars,
                 handle, onceState, globalRegistry, instances, raced, fatal,
                 completed>>

\* HasCapability up to the read of the inner container (a key without an
\* entry makes it return false at once).
GoHasCapability(g, t) ==
  /\ ~fatal /\ raced = {}
  /\ gpc[g] = "idle"
  /\ handle[g] # 0
  /\ IF build = "map" THEN makeKey(t[1], t[2]) \in DOMAIN capabilities
     ELSE makeSlug(t[1], t[2]) \in DOMAIN models
  /\ gop' = [gop EXCEPT ![g] =
               [op |-> "HasCapability", cell |-> t, config |-> Nil, key |-> "",
                value |-> "", dirty |-> FALSE,
                target |-> IF build = "map" THEN makeKey(t[1], t[2])
                           ELSE makeSlug(t[1], t[2]) \o "#" \o t[3]]]
  /\ gpc' = [gpc EXCEPT ![g] = "read"]
  /\ UNCHANGED <<regVars, prepVars, streamVars, handle, onceState,
                 globalRegistry, instances, raced, fatal, completed>>

\* <Adapter>.SetOption(key, value) up to the assignment p.options[key] = value;
\* every goroutine sets a key of its own.
GoSetOption(g, value) ==
  /\ ~fatal /\ raced = {}
  /\ gpc[g] = "idle"
  /\ activeProvider # ""
  /\ gop' = [gop EXCEPT ![g] =
               [op |-> "SetOption", cell |-> <<"", "", "">>, config |-> Nil,
                key |-> "key" \o ToString(g), value |-> value,
                dirty |-> FALSE, target |-> "options"]]
  /\ gpc' = [gpc EXCEPT ![g] = "write"]
  /\ UNCHANGED <<regVars, prepVars, streamVars, handle, onceState,
                 globalRegistry, instances, raced, fatal, completed>>

\* The goroutine starts its access; it is a data race when another goroutine
\* is inside an access of the same object and one of the two writes.
MapAccessBegin(g) ==
  /\ ~fatal
  /\ gpc[g] \in {"read", "write"}
  /\ LET others == {h \in (1..NumProcs) \ {g} :
                      /\ gpc[h] \in {"reading", "writing"}
                      /\ gop[h].target = gop[g].target
                      /\ (gpc[g] = "write" \/ gpc[h] = "writing")}
     IN /\ gop' = [h \in 1..NumProcs |->
                     IF others # {} /\ h \in others \cup {g}
                       THEN [gop[h] EXCEPT !.dirty = TRUE] ELSE gop[h]]
        /\ raced' = IF others = {} THEN raced
                    ELSE raced \cup {IF gop[g].target = "options"
                                       THEN "options" ELSE "registry"}
  /\ gpc' = [gpc EXCEPT ![g] = IF gpc[g] = "read" THEN "reading" ELSE "writing"]
  /\ UNCHANGED <<regVars, prepVars, streamVars, handle, onceState,
                 globalRegistry, instances, fatal, completed>>

\* The access ends and the call returns.  outcome is "stored" for an access
\* that raced with nothing; a write that raced may also be "lost" or, on a Go
\* map, "fatal".
MapAccessEnd(g, outcome) ==
  /\ ~fatal
  /\ gpc[g] \in {"reading", "writing"}
  /\ outcome # "stored" => (gop[g].dirty /\ gpc[g] = "writing")
  /\ outcome = "fatal" => (build = "map" \/ gop[g].target = "options")
  /\ LET stores == gpc[g] = "writing" /\ outcome = "stored"
         call == gop[g]
     IN /\ capabilities' =
             IF stores /\ call.op = "Register" /\ build = "map"
               THEN Register(capabilities, call.cell[1], call.cell[2],
                             call.cell[3], call.config)
               ELSE capabilities
        /\ models' =
             IF stores /\ call.op = "Register" /\ build = "slice"
               THEN RegisterCapability(models, call.cell[1], call.cell[2],
                                       CapabilityType_value[call.cell[3]],
                                       call.config)
               ELSE models
        /\ pOptions' =
             IF stores /\ call.op = "SetOption"
               THEN Put(pOptions, call.key, call.value) ELSE pOptions
        /\ completed' =
             IF gpc[g] = "writing" /\ outcome # "fatal"
               THEN completed \cup {[call EXCEPT !.dirty = FALSE]}
               ELSE completed
  /\ fatal' = (outcome = "fatal")
  /\ gpc' = [gpc EXCEPT ![g] = "idle"]
  /\ gop' = [gop EXCEPT ![g] = NoCall]
  /\ UNCHANGED <<build, adapters, lastReg, sinceClear, activeProvider,
                 streamMode, lastPrepare, lastParse, extraHeaders,
                 givenHeaders, lastLimit, lastSchema, streamVars, handle,
                 onceState,
                 globalRegistry, instances, raced>>

\* A process in which nothing has called the accessor yet, or one whose main
\* goroutine has constructed the adapter before the goroutines start.
InitConcurrent ==
  \/ /\ build \in {"map", "slice"}
     /\ activeProvider = ""
     /\ InitRegistry
     /\ InitStream
     /\ InitConc(FALSE)
  \/ InitStreaming

\* The cells the goroutines register and read: one (provider, model) key.
ConcTargets ==
  {t \in MapRegTargets \cup SliceRegTargets :
     /\ t[2] # UnknownModel
     /\ t[1] = IF build = "map" THEN ProviderAnthropic ELSE ProviderOpenAI}

NextConcurrent ==
  \/ \E g \in 1..NumProcs : RegistryOnceDo(g)
  \/ \E g \in 1..NumProcs : RegistryOnceF(g)
  \/ \E g \in 1..NumProcs : \E t \in ConcTargets :
       GoRegister(g, t, Descriptor(t[3], 1))
  \/ \E g \in 1..NumProcs : \E t \in ConcTargets : GoHasCapability(g, t)
  \/ \E g \in 1..NumProcs : GoSetOption(g, "v")
  \/ \E g \in 1..NumProcs : MapAccessBegin(g)
  \/ \E g \in 1..NumProcs : \E outcome \in {"stored", "lost", "fatal"} :
       MapAccessEnd(g, outcome)

SpecConcurrent == InitConcurrent /\ [][NextConcurrent]_vars

\* C13: no goroutine writes the inner capability container of a key while
\* another goroutine reads or writes it, and once every call has returned
\* every descriptor a Register call stored is retrievable.
C13_NoRaceNoLostRegistration ==
  /\ "registry" \notin raced
  /\ ~fatal
  /\ (\A g \in 1..NumProcs : gpc[g] = "idle") =>
       \A call \in completed :
         call.op = "Register" =>
           GetConfig(call.cell[1], call.cell[2], call.cell[3]) # Nil

\* C14: concurrent SetOption calls with pairwise distinct keys never write
\* the options map at the same time, and once they have returned every key
\* holds the value its caller set.
C14_SetOptionThreadSafe ==
  /\ "options" \notin raced
  /\ (\A g \in 1..NumProcs : gpc[g] = "idle") =>
       \A call \in completed :
         call.op = "SetOption" => Get(pOptions, call.key, "") = call.value

\* C15: the accessor constructs one registry per process and every call,
\* concurrent first calls included, returns it; so, where no data race has
\* spoilt the store, a descriptor registered through one goroutine's handle
\* is seen by HasCapability through every handle.
C15_RegistrySingleton ==
  /\ instances <= 1
  /\ \A g \in 1..NumProcs : handle[g] # 0 => handle[g] = globalRegistry
  /\ ("registry" \notin raced /\ ~fatal) =>
       \A call \in completed :
         call.op = "Register" =>
           HasCapability(call.cell[1], call.cell[2], call.cell[3])

\* In a process that started without a registry, two goroutines hold a
\* handle and a Register call of one of them has returned.
C15_Witness ==
  /\ \A p \in Providers : adapters[p] = NoAdapter
  /\ handle[1] # 0 /\ handle[2] # 0
  /\ \E call \in completed : call.op = "Register"
  /\ "registry" \notin raced

(***************************************************************************)
(* ParseResponse of the seven adapters.  A body is a sequence of JSON      *)
(* values and white space, as for the stream chunks; the bodies considered *)
(* hold text only (no tool calls or function calls).                       *)
(***************************************************************************)

\* AnthropicProvider.processAnthropicContent over text blocks: a space
\* between a text block and the text pending before it.
RECURSIVE processAnthropicContent(_, _, _)
processAnthropicContent(contents, pendingText, lastType) ==
  IF Len(contents) = 0 THEN pendingText
  ELSE LET content == Head(contents)
           type == Field(content, "type", "")
       IN IF type = "text"
            THEN processAnthropicContent(Tail(contents),
                   pendingText
                     \o (IF lastType = "text" /\ pendingText # "" THEN " " ELSE "")
                     \o Field(content, "text", ""),
                   type)
            ELSE processAnthropicContent(Tail(contents), pendingText, type)

AnthropicParseResponse(body) ==
  LET u == Unmarshal(body)
      content == Field(u.j, "content", <<>>)
      usage == anthropicUsage(Field(u.j, "usage", EmptyMap))
  IN IF ~u.ok THEN Parsed(NilPtr, "error parsing anthropicResponse")
     ELSE IF Len(content) = 0
       THEN Parsed(NilPtr, "empty anthropicResponse from LLM")
     ELSE Parsed(Response(Text(processAnthropicContent(content, "", "")),
                          NewUsage(usage.InputTokens,
                                   usage.CacheCreationInputTokens,
                                   usage.OutputTokens, 0,
                                   usage.CacheReadInputTokens)), "")

GroqParseResponse(body) ==
  LET u == Unmarshal(body)
      choices == Field(u.j, "choices", <<>>)
      content == IF Len(choices) > 0 /\ "message" \in DOMAIN choices[1]
                   THEN Field(choices[1].message, "content", "") ELSE ""
  IN IF ~u.ok THEN Parsed(NilPtr, "error parsing response")
     ELSE IF Len(choices) = 0 \/ content = ""
       THEN Parsed(NilPtr, "empty response from API")
     ELSE Parsed(Response(Text(content),
                          IF "usage" \in DOMAIN u.j
                            THEN NewUsage(Field(u.j.usage, "prompt_tokens", 0), 0,
                                          Field(u.j.usage, "completion_tokens", 0),
                                          0, 0)
                            ELSE NilPtr), "")

\* OllamaProvider.ParseResponse: the loop over the JSON values of the body,
\* until the body ends or a value has done = true.
RECURSIVE OllamaParseResponse(_, _, _, _)
OllamaParseResponse(body, fullText, promptEvalCount, evalCount) ==
  LET more == {i \in 1..Len(body) : body[i] \notin {Lit(" "), Lit("\n")}}
      next == CHOOSE i \in more : \A j \in more : i <= j
      response == body[next].json
      text == fullText \o Field(response, "response", "")
      prompt == IF Field(response, "prompt_eval_count", 0) > 0
                  THEN response.prompt_eval_count ELSE promptEvalCount
      eval == IF Field(response, "eval_count", 0) > 0
                THEN response.eval_count ELSE evalCount
      resp(t, pe, ec) ==
        Parsed(Response(Text(t), IF pe > 0 \/ ec > 0
                                   THEN NewUsage(pe, 0, ec, 0, 0) ELSE NilPtr), "")
  IN IF more = {} THEN resp(fullText, promptEvalCount, evalCount)
     ELSE IF "json" \notin DOMAIN body[next]
       THEN Parsed(NilPtr, "error parsing Ollama response")
     ELSE IF Field(response, "done", FALSE) THEN resp(text, prompt, eval)
     ELSE OllamaParseResponse(SubSeq(body, next + 1, Len(body)), text, prompt, eval)

OpenAIParseResponse(body) ==
  LET u == Unmarshal(body)
      choices == Field(u.j, "choices", <<>>)
      responseUsage == IF "usage" \in DOMAIN u.j THEN openAIUsage(u.j.usage)
                       ELSE NilPtr
      usage == IF responseUsage # NilPtr
                    /\ responseUsage.PromptTokensDetails # NilPtr
                 THEN NewUsage(responseUsage.PromptTokens,
                               responseUsage.PromptTokensDetails.CacheTokens,
                               responseUsage.CompletionTokens, 0, 0)
                 ELSE ZeroUsage
  IN IF ~u.ok THEN Parsed(NilPtr, "failed to unmarshal response")
     ELSE IF Len(choices) = 0 THEN Parsed(NilPtr, "empty response from API")
     ELSE IF "message" \notin DOMAIN choices[1]
       THEN Parsed(NilPtr, "panic: nil pointer dereference")
     ELSE IF Field(choices[1].message, "content", "") # ""
       THEN Parsed(Response(Text(choices[1].message.content), usage), "")
     ELSE Parsed(NilPtr, "no content or tool calls in response")

MistralParseResponse(body) ==
  LET u == Unmarshal(body)
      choices == Field(u.j, "choices", <<>>)
      content == IF Len(choices) > 0 /\ "message" \in DOMAIN choices[1]
                   THEN Field(choices[1].message, "content", "") ELSE ""
  IN IF ~u.ok THEN Parsed(NilPtr, "error parsing response")
     ELSE IF Len(choices) = 0 \/ content = ""
       THEN Parsed(NilPtr, "empty response from API")
     ELSE Parsed(Response(Text(content), NilPtr), "")

CohereParseResponse(body) ==
  LET u == Unmarshal(body)
      content == IF "message" \in DOMAIN u.j
                   THEN Field(u.j.message, "content", <<>>) ELSE <<>>
  IN IF ~u.ok THEN Parsed(NilPtr, "error parsing response")
     ELSE IF Len(content) = 0 THEN Parsed(NilPtr, "empty response from API")
     ELSE Parsed(Response(Text(WriteStrings(
                   [i \in 1..Len(content) |->
                      IF Field(content[i], "type", "") = "text"
                        THEN Field(content[i], "text", "") ELSE ""])),
                 NilPtr), "")

GeminiParseResponse(body) ==
  LET u == Unmarshal(body)
      candidates == Field(u.j, "candidates", <<>>)
      parts == IF "content" \in DOMAIN candidates[1]
                 THEN Field(candidates[1].content, "parts", <<>>) ELSE <<>>
      um == u.j.usageMetadata
  IN IF ~u.ok THEN Parsed(NilPtr, "failed to unmarshal response")
     ELSE IF Len(candidates) = 0 THEN Parsed(NilPtr, "no candidates in response")
     ELSE IF Len(parts) = 0 THEN Parsed(NilPtr, "no content parts in response")
     ELSE Parsed([Role |-> "assistant",
                  Content |-> Text(WriteStrings(
                    [i \in 1..Len(parts) |-> Field(parts[i], "text", "")])),
                  Usage |-> IF "usageMetadata" \in DOMAIN u.j
                              THEN NewUsage(Field(um, "promptTokenCount", 0),
                                            Field(um, "cachedContentTokenCount", 0),
                                            Field(um, "candidatesTokenCount", 0),
                                            0, 0)
                              ELSE NilPtr], "")

\* Provider.ParseResponse of the adapter p.
ParseResponse(p, body) ==
  CASE p = ProviderAnthropic -> AnthropicParseResponse(body)
    [] p = ProviderGroq -> GroqParseResponse(body)
    [] p = ProviderOllama -> OllamaParseResponse(body, "", 0, 0)
    [] p = ProviderOpenAI -> OpenAIParseResponse(body)
    [] p = ProviderMistral -> MistralParseResponse(body)
    [] p = ProviderCohere -> CohereParseResponse(body)
    [] p = ProviderGemini -> GeminiParseResponse(body)

\* The response bodies a vendor's API may send to the adapter p: the empty
\* object, a body that is not JSON, and the vendor's payload with and
\* without text and token counts.
ParseBodies(p) ==
  LET texts == Texts \cup {""}
      counts == (1..MaxCount) \X (1..MaxCount)
      chat(t) == [choices |-> <<[message |-> [content |-> t]]>>]
      vendor ==
        CASE p = ProviderAnthropic ->
               {[content |-> <<[type |-> "text", text |-> t]>>] : t \in texts}
               \cup {[content |-> <<[type |-> "text", text |-> t]>>,
                      usage |-> [input_tokens |-> n[1], output_tokens |-> n[2]]] :
                       t \in texts, n \in counts}
               \cup {[content |-> <<>>],
                     [content |-> <<[type |-> "text", text |-> "Hel"],
                                    [type |-> "text", text |-> "lo"]>>]}
          [] p = ProviderOpenAI ->
               {chat(t) : t \in texts}
               \cup {[choices |-> <<[message |-> [content |-> t]]>>,
                      usage |-> [prompt_tokens |-> n[1], completion_tokens |-> n[2],
                                 prompt_tokens_details |-> [cache_tokens |-> 1]]] :
                       t \in texts, n \in counts}
               \cup {[choices |-> <<>>], [choices |-> <<[index |-> 0]>>],
                     [choices |-> <<[message |-> [content |-> "Hel"]]>>,
                      usage |-> [prompt_tokens |-> 1, completion_tokens |-> 1]]}
          [] p \in {ProviderGroq, ProviderMistral} ->
               {chat(t) : t \in texts}
               \cup {[choices |-> <<[message |-> [content |-> t]]>>,
                      usage |-> [prompt_tokens |-> n[1], completion_tokens |-> n[2]]] :
                       t \in texts, n \in counts}
               \cup {[choices |-> <<>>], [choices |-> <<[index |-> 0]>>]}
          [] p = ProviderCohere ->
               {[message |-> [content |-> <<[type |-> "text", text |-> t]>>]] :
                  t \in texts}
               \cup {[message |-> [content |-> <<[type |-> "text", text |-> t]>>],
                      usage |-> [tokens |-> [input_tokens |-> n[1],
                                             output_tokens |-> n[2]]]] :
                       t \in texts, n \in counts}
               \cup {[message |-> [content |-> <<>>]],
                     [message |-> [role |-> "assistant"]],
                     [message |-> [content |-> <<[type |-> "text", text |-> "Hel"],
                                                 [type |-> "text", text |-> "lo"]>>]]}
          [] p = ProviderGemini ->
               {[candidates |-> <<[content |-> [parts |-> <<[text |-> t]>>]]>>] :
                  t \in texts}
               \cup {[candidates |-> <<[content |-> [parts |-> <<[text |-> t]>>]]>>,
                      usageMetadata |-> [promptTokenCount |-> n[1],
                                         candidatesTokenCount |-> n[2]]] :
                       t \in texts, n \in counts}
               \cup {[candidates |-> <<>>],
                     [candidates |-> <<[content |-> [role |-> "model"]]>>]}
          [] p = ProviderOllama ->
               {[response |-> t, done |-> d] : t \in texts, d \in BOOLEAN}
               \cup {[response |-> t, done |-> TRUE,
                      prompt_eval_count |-> n[1], eval_count |-> n[2]] :
                       t \in texts, n \in counts}
               \cup {[done |-> TRUE]}
  IN {<<JSON(j)>> : j \in vendor}
     \cup {<<JSON(EmptyMap)>>, <<JSON(EmptyMap), Lit("\n")>>, <<Lit("x")>>}
     \cup (IF p = ProviderOllama
             THEN {<<JSON([response |-> "Hel", done |-> FALSE]), Lit("\n"),
                     JSON([response |-> "lo", done |-> TRUE, eval_count |-> 1])>>,
                   <<JSON([response |-> "Hel", done |-> FALSE]), Lit("\n"),
                     Lit("x")>>}
             ELSE {})

\* The caller hands the adapter a response body.
CallParseResponse(body) ==
  /\ adapters[activeProvider] # NoAdapter
  /\ lastParse' = [called |-> TRUE, body |-> body,
                   res |-> ParseResponse(activeProvider, body)]
  /\ UNCHANGED <<regVars, activeProvider, streamMode, lastPrepare, pOptions,
                 extraHeaders, givenHeaders, lastLimit, lastSchema,
                 streamVars, concVars>>

\* The caller constructs the adapter, then hands it response bodies.
NextParse ==
  \/ \E m \in BoundModels(activeProvider) : NewMapProvider(activeProvider, m, EmptyMap)
  \/ \E m \in BoundModels(activeProvider) : NewSliceProvider(activeProvider, m, EmptyMap)
  \/ \E body \in ParseBodies(activeProvider) : CallParseResponse(body)

SpecParse == InitPrepare /\ [][NextParse]_vars

\* C20: ParseResponse of the body {} returns no Response and an error that
\* says the response is empty, whichever adapter parses it.
C20_EmptyObjectIsEmptyResponse ==
  LET u == Unmarshal(lastParse.body)
  IN (lastParse.called /\ u.ok /\ DOMAIN u.j = {}) =>
       /\ lastParse.res.resp = NilPtr
       /\ lastParse.res.err \in {"empty response from API",
                                 "empty anthropicResponse from LLM",
                                 "no candidates in response"}

(***************************************************************************)
(* The caller holds an OpenAI adapter and sets options on it.              *)
(***************************************************************************)
\* The keys, the values and the configurations the caller sets.
OptionKeys == SetOptionKeys \cup {"top_p", "seed"}

OptionValues == {"7", "8"}

OptionConfigs ==
  {DefaultConfig, [Temperature |-> "8", MaxTokens |-> "8", Sampling |-> "8"]}

InitOptions == InitPrepare /\ activeProvider = ProviderOpenAI

NextOptions ==
  \/ \E m \in BoundModels(ProviderOpenAI) : NewOpenAIProvider(m)
  \/ \E key \in OptionKeys : \E value \in OptionValues :
       CallSetOption(key, value)
  \/ \E cfg \in OptionConfigs : CallSetDefaultOptions(cfg)

SpecOptions == InitOptions /\ [][NextOptions]_vars

\* C29: whatever SetOption and SetDefaultOptions calls an OpenAI adapter has
\* taken, p.options never holds both max_tokens and max_completion_tokens,
\* holds no max_tokens when the bound model takes max_completion_tokens, and
\* the limit it holds is the value of the most recent call that set one.
C29_OneTokenLimitKey ==
  (activeProvider = ProviderOpenAI /\ adapters[ProviderOpenAI] # NoAdapter) =>
    /\ ~(TokenLimitKeys \subseteq DOMAIN pOptions)
    /\ needsMaxCompletionTokens(adapters[ProviderOpenAI]) =>
         "max_tokens" \notin DOMAIN pOptions
    /\ \A k \in TokenLimitKeys \cap DOMAIN pOptions : pOptions[k] = lastLimit
    /\ lastLimit # "" => TokenLimitKeys \cap DOMAIN pOptions # {}

\* An adapter bound to a model that takes max_tokens holds the limit of a
\* later SetOption("max_completion_tokens") next to other options.
C29_Witness ==
  /\ activeProvider = ProviderOpenAI
  /\ adapters[ProviderOpenAI] # NoAdapter
  /\ ~needsMaxCompletionTokens(adapters[ProviderOpenAI])
  /\ DOMAIN pOptions = {"temperature", "seed", "max_completion_tokens"}
  /\ pOptions["max_completion_tokens"] = "8"
  /\ pOptions["temperature"] = "7"

(***************************************************************************)
(* The caller supplies extra headers and asks the adapter for its headers. *)
(***************************************************************************)
\* The API key the adapters are constructed with.
apiKey == "key"

\* <Adapter>.Headers(): the headers of a request.  The Anthropic adapter
\* returns four fixed headers and the Ollama adapter the content type; the
\* others lay p.extraHeaders over the content type and the credentials.
Headers(p) ==
  CASE p = ProviderAnthropic ->
         [k \in {"Content-Type", "x-api-key", "anthropic-version",
                 "anthropic-beta"} |->
            CASE k = "Content-Type" -> "application/json"
              [] k = "x-api-key" -> apiKey
              [] k = "anthropic-version" -> "2023-06-01"
              [] OTHER -> "prompt-caching-2024-07-31"]
    [] p = ProviderOllama -> ("Content-Type" :> "application/json")
    [] p = ProviderCohere ->
         extraHeaders @@ ("Content-type" :> "application/json")
                      @@ ("Authorization" :> "Bearer " \o apiKey)
    [] p = ProviderGemini ->
         extraHeaders @@ ("Content-Type" :> "application/json")
                      @@ (IF streamMode
                            THEN ("x-goog-api-key" :> apiKey)
                                   @@ ("Accept" :> "text/event-stream")
                            ELSE ("Authorization" :> "Bearer " \o apiKey))
    [] OTHER ->
         extraHeaders @@ ("Content-Type" :> "application/json")
                      @@ ("Authorization" :> "Bearer " \o apiKey)

\* <Adapter>.SetExtraHeaders(given): p.extraHeaders becomes the caller's map.
CallSetExtraHeaders(given) ==
  /\ activeProvider \in Providers
  /\ adapters[activeProvider] # NoAdapter
  /\ extraHeaders' = given
  /\ givenHeaders' = given
  /\ UNCHANGED <<regVars, activeProvider, streamMode, lastPrepare, pOptions,
                 lastParse, lastLimit, lastSchema, streamVars, concVars>>

\* The header maps a caller supplies (the empty one stands for nil too).
HeaderInputs ==
  {EmptyMap, ("X-Trace" :> "t1"), ("X-Trace" :> "t2"),
   ("anthropic-beta" :> "tools-2024-04-04"),
   ("X-Trace" :> "t1") @@ ("anthropic-beta" :> "tools-2024-04-04"),
   ("Authorization" :> "Bearer other")}

NextHeaders ==
  \/ \E m \in BoundModels(activeProvider) : \E given \in HeaderInputs :
       NewMapProvider(activeProvider, m, given)
  \/ \E m \in BoundModels(activeProvider) : \E given \in HeaderInputs :
       NewSliceProvider(activeProvider, m, given)
  \/ \E given \in HeaderInputs : CallSetExtraHeaders(given)
  \/ \E req \in PrepRequests(ProviderGemini) :
       CallGeminiPrepareStreamRequest(req, NilOptions)

SpecHeaders == InitPrepare /\ [][NextHeaders]_vars

\* C25: the headers of every constructed adapter hold each extra header the
\* caller supplied last (at construction or through SetExtraHeaders) with
\* the caller's value, a content type and the credentials; the Anthropic
\* anthropic-beta header is the caller's when the caller gave one and
\* prompt-caching-2024-07-31 otherwise.
C25_HeadersCarryExtras ==
  (activeProvider \in Providers /\ adapters[activeProvider] # NoAdapter) =>
    LET h == Headers(activeProvider)
    IN /\ \A k \in DOMAIN givenHeaders :
            k \in DOMAIN h /\ h[k] = givenHeaders[k]
       /\ {"Content-Type", "Content-type"} \cap DOMAIN h # {}
       /\ activeProvider # ProviderOllama =>
            {"Authorization", "x-api-key", "x-goog-api-key"} \cap DOMAIN h # {}
       /\ activeProvider = ProviderAnthropic =>
            h["anthropic-beta"] =
              IF "anthropic-beta" \in DOMAIN givenHeaders
                THEN givenHeaders["anthropic-beta"]
                ELSE "prompt-caching-2024-07-31"

(***************************************************************************)
(* The response schema the Gemini adapter transmits.                       *)
(***************************************************************************)
\* nesting depth of the response schemas given to the adapter
MaxSchemaDepth == 1

\* The meta fields of a jsonschema.Schema node: Version is marshalled as
\* "$schema", ID as "$id", Ref as "$ref" and Definitions as "$defs", each
\* left out when empty.
SchemaMetas ==
  {[Version |-> "", ID |-> "", Ref |-> "", Definitions |-> {}],
   [Version |-> "https://json-schema.org/draft/2020-12/schema", ID |-> "",
    Ref |-> "", Definitions |-> {}],
   [Version |-> "", ID |-> "https://example.com/answer", Ref |-> "",
    Definitions |-> {}],
   [Version |-> "", ID |-> "", Ref |-> "#/$defs/Answer", Definitions |-> {}],
   [Version |-> "", ID |-> "", Ref |-> "", Definitions |-> {"Answer"}],
   [Version |-> "https://json-schema.org/draft/2020-12/schema",
    ID |-> "https://example.com/answer", Ref |-> "#/$defs/Answer",
    Definitions |-> {"Answer"}]}

\* A schema node with its nested schemas: the property values, the items
\* schema and the anyOf alternatives.
SchemaNode(meta, type, properties, items, anyOf) ==
  [Version |-> meta.Version, ID |-> meta.ID, Ref |-> meta.Ref,
   Definitions |-> meta.Definitions, Type |-> type,
   Properties |-> properties, Items |-> items, AnyOf |-> anyOf]

\* The schemas nested at most d deep.
RECURSIVE Schemas(_)
Schemas(d) ==
  {SchemaNode(meta, "string", <<>>, <<>>, <<>>) : meta \in SchemaMetas}
    \cup (IF d = 0 THEN {}
          ELSE UNION {{SchemaNode(meta, "object", <<c>>, <<>>, <<>>),
                       SchemaNode(meta, "array", <<>>, <<c>>, <<>>),
                       SchemaNode(meta, "", <<>>, <<>>, <<c>>)} :
                      meta \in SchemaMetas, c \in Schemas(d - 1)})

\* The meta keys in the JSON of schema s, at any depth.
RECURSIVE metaKeys(_)
metaKeys(s) ==
  (IF s.Version # "" THEN {"$schema"} ELSE {})
    \cup (IF s.ID # "" THEN {"$id"} ELSE {})
    \cup (IF s.Ref # "" THEN {"$ref"} ELSE {})
    \cup (IF s.Definitions # {} THEN {"$defs"} ELSE {})
    \cup UNION {metaKeys(c) : c \in Range(s.Properties) \cup Range(s.Items)
                                      \cup Range(s.AnyOf)}

\* GeminiProvider.addStructuredResponseToRequest: the value stored under
\* generationConfig.responseSchema is the caller's schema pointer.
addStructuredResponseToRequest(schema) == schema

\* GeminiProvider.PrepareRequest with a request whose ResponseSchema is
\* the given schema.
CallGeminiPrepareSchema(schema) ==
  LET req == [Model |-> "", ResponseSchema |-> "schema", SystemPrompt |-> "",
              Messages |-> <<[Role |-> "user", Content |-> "hi"]>>]
      res == GeminiPrepareRequest(req, NilOptions)
  IN /\ activeProvider = ProviderGemini
     /\ adapters[ProviderGemini] # NoAdapter
     /\ "generationConfig.responseSchema" \in DOMAIN res.body
     /\ lastPrepare' = Prepared(ProviderGemini, "PrepareRequest", req,
                                NilOptions, res)
     /\ lastSchema' = [called |-> TRUE, given |-> schema,
                       sent |-> addStructuredResponseToRequest(schema)]
     /\ UNCHANGED <<regVars, activeProvider, streamMode, pOptions, lastParse,
                    extraHeaders, givenHeaders, lastLimit, streamVars,
                    concVars>>

InitSchema == InitPrepare /\ activeProvider = ProviderGemini

NextSchema ==
  \/ \E m \in BoundModels(ProviderGemini) : NewGeminiProvider(m)
  \/ \E schema \in Schemas(MaxSchemaDepth) : CallGeminiPrepareSchema(schema)

SpecSchema == InitSchema /\ [][NextSchema]_vars

\* C23: whatever response schema the Gemini adapter is given, the schema
\* it puts into the body has none of the keys $schema, $id, $defs and $ref,
\* neither at the root nor in a nested schema.
C23_NoMetaKeysSent ==
  lastSchema.called => metaKeys(lastSchema.sent) = {}

(***************************************************************************)
(* Properties of a stream that skips frames or loses its body.             *)
(***************************************************************************)
\* C26: what a Next has returned is a token, io.EOF or the cancellation
\* error, never the skip sentinel or the parse error of an adapter: after
\* a frame is discarded for such an error, whatever its text, the loop is
\* still running or has ended with the cancellation.
C26_ParseErrorsStayInside ==
  /\ lastResult \in {"none", "token", ErrEOF, "context canceled"}
  /\ lastResult = "token" => lastToken # NoToken
  /\ lastSkipErr # "" =>
       /\ lastSkipErr # ErrEOF
       /\ skipped > 0
       /\ pc = "idle" => lastResult = "context canceled"

\* Next goes on after the Mistral adapter failed to parse a frame, having
\* discarded it and another frame before it.
C26_Witness ==
  /\ activeProvider = ProviderMistral
  /\ pc = "select"
  /\ skipped > 1
  /\ lastSkipErr = "malformed response"

\* C27: a Next in which the read of the body fails does not return io.EOF:
\* it returns the error when the retry strategy declines it and goes on
\* when the strategy accepts it.
C27_ReadFailureIsNotEOF ==
  [][(scanErr = "" /\ scanErr' # "") =>
       ~(pc' = "idle" /\ lastResult' = ErrEOF)]_vars

(***************************************************************************)
(* One frame through the decoder and processNextEvent.                     *)
(***************************************************************************)
DecodeProviders == StreamProviders \cup FrameProviders

\* The lines frames are made of, and the frames handed to the decoder.
DecodeLines ==
  {DataLine(Lit("a")), DataLine(Lit("b")), <<Lit("data"), Lit(":"), Lit("a")>>,
   CommentLine, EventLine("ping")}

DecodeInputs(p) ==
  Frames(p) \cup {<<l1, l2>> : l1 \in DecodeLines, l2 \in DecodeLines}

\* decoder.Next reads the lines and the empty line after them, and
\* processNextEvent handles what the decoder dispatched.
DecodeFrame(lines) ==
  /\ pc = "idle"
  /\ LET d == DecoderNext(decoderErr, lines, FALSE)
     IN lastFrame' =
          [lines |-> lines, ok |-> d.ok, event |-> d.current,
           step |-> processNextEvent(activeProvider, d, decoderErr, FALSE,
                                     currentIndex)]
  /\ UNCHANGED <<regVars, prepVars, concVars, pc, ctxDone, currentIndex,
                 decoderErr, framesRead, scanDone, closeCalled, readerClosed,
                 lastResult, lastToken, prevToken, nYielded, eofReturned,
                 skipped, scanErr, lastSkipErr>>

InitDecode == InitAdapterStream(DecodeProviders)

NextDecode == \E lines \in DecodeInputs(activeProvider) : DecodeFrame(lines)

SpecDecode == InitDecode /\ [][NextDecode]_vars

\* C22: the data of the event dispatched at an empty line is the values of
\* the data lines read before it, each without one space after the colon,
\* joined by single newlines and with no newline after the last; comment
\* lines add nothing.
C22_DataJoinedWithoutTrailingNewline ==
  LET isData(line) == Cut(line, Lit(":")).before = <<Lit("data")>>
      value(line) ==
        LET after == Cut(line, Lit(":")).after
        IN IF Len(after) > 0 /\ after[1] = Lit(" ") THEN Tail(after) ELSE after
      RECURSIVE join(_)
      join(ls) ==
        IF Len(ls) = 0 THEN <<>>
        ELSE IF Len(ls) = 1 THEN value(ls[1])
        ELSE value(ls[1]) \o <<Lit("\n")>> \o join(Tail(ls))
  IN lastFrame.ok =>
       lastFrame.event.Data = join(SelectSeq(lastFrame.lines, isData))

\* C28: a frame of a Gemini stream whose first candidate has text makes
\* Next return a token with the concatenated text of that candidate's
\* parts, with or without usageMetadata in the frame.
C28_GeminiTextWithUsage ==
  LET u == Unmarshal(lastFrame.event.Data)
      candidates == geminiResponse(u.j).Candidates
      parts == candidates[1].Content.Parts
      text == WriteStrings([k \in 1..Len(parts) |-> parts[k].Text])
  IN (activeProvider = ProviderGemini /\ lastFrame.ok /\ u.ok
        /\ Len(candidates) > 0 /\ text # "") =>
       /\ ~lastFrame.step.shouldContinue
       /\ lastFrame.step.err = ""
       /\ lastFrame.step.token.Text = text

====
